---- MODULE Spec2Model ----
(***************************************************************************)
(* Cycle-time data cleaner and cycle-time calculator of                    *)
(* araucaria-project/ctc.                                                  *)
(*                                                                         *)
(* Spec follows src/ctc/cycle_time_data_clean.py; SpecCalc follows a       *)
(* session of one CycleTimeCalc object of src/ctc/cycle_time_calc.py and   *)
(* SpecPair two such objects fed the same commands; SpecFeatures follows   *)
(* single calls of the feature functions of src/ctc/abstract_cycle_time.py *)
(* and SpecCT the coroutines that share one CTData of src/ctc/ctdata.py.   *)
(*                                                                         *)
(* The model of the cleaner has one telescope, its                         *)
(* raw log, its night verification ledger and its per-command clean-data   *)
(* files, and the data_clean pass over them.  Python dicts are modelled as *)
(* TLA+ functions (records) whose DOMAIN is the key set; insertion-ordered *)
(* dicts that the code iterates are sequences of entries with unique keys. *)
(* Python indices are kept 0-based in the values the code stores           *)
(* (started, ended, line_start); a list element data[i] is data[i + 1]     *)
(* of the TLA+ sequence.                                                   *)
(***************************************************************************)
EXTENDS Integers, Sequences, FiniteSets, TLC

VARIABLES
    raw_data,        \* <telescope>_raw_data.txt: the lines of the raw log
    night_verif,     \* <telescope>_night_verif.txt: the lines of the ledger
    clean_data,      \* <telescope>_<command>_clean_data.txt, per command
    pc,              \* where the data_clean pass is
    parsed_data,     \* data_clean: the parsed raw log the pass works on
    found_nights,    \* data_clean: result of _find_nights_id
    full_nights_id,  \* data_clean: the spans left by _verify_nights
    commands_data,   \* data_clean: result of _build_commands_data
    n_written,       \* appends of _save_commands_data_to_files done so far
    fresh,           \* history: the log is as the last finished pass read it
    rerun,           \* history: this pass repeats the one before it
    kills            \* history: number of passes interrupted while saving

\* A CycleTimeCalc object of src/ctc/cycle_time_calc.py and its session
VARIABLES
    available_param,    \* the trained parameter sets read at construction
    tpg,                \* constructor flag: target position unknown
    _time_length,       \* accumulated seconds
    _time_length_list,  \* the history list
    _start_time,        \* session start instant, seconds
    _alt_mount,         \* simulated mount altitude, degrees
    _az_mount,          \* simulated mount azimuth, degrees
    _az_dome,           \* simulated dome azimuth, degrees
    _current_filter,    \* tracked filter
    _rmode,             \* readout-mode index
    _set_rm_modes,      \* readout-mode table given by the caller, or None
    _skipping,          \* skip-below-limit mode
    utcnow,             \* the wall clock, seconds
    last,               \* history: the operation just made and its outcome
    returned            \* history: the outcomes of the calc_time calls
                        \* since construction or the last reset_time

\* Single calls of the feature functions, two calculators side by side, and
\* one CTData object with the coroutines working on it
VARIABLES
    call,               \* a call of a feature function: arguments, outcome
    pair,               \* two calculators fed the same commands
    ct,                 \* a CTData object and the coroutines calling it
    train               \* the train_param files of a telescope's command

cleanvars == <<raw_data, night_verif, clean_data, pc, parsed_data,
               found_nights, full_nights_id, commands_data, n_written, fresh,
               rerun, kills>>

calcvars == <<available_param, tpg, _time_length, _time_length_list,
              _start_time, _alt_mount, _az_mount, _az_dome, _current_filter,
              _rmode, _set_rm_modes, _skipping, utcnow, last, returned>>

othervars == <<call, pair, ct, train>>

vars == <<raw_data, night_verif, clean_data, pc, parsed_data, found_nights,
          full_nights_id, commands_data, n_written, fresh, rerun, kills,
          available_param, tpg, _time_length, _time_length_list,
          _start_time, _alt_mount, _az_mount, _az_dome, _current_filter,
          _rmode, _set_rm_modes, _skipping, utcnow, last, returned,
          call, pair, ct, train>>

(***************************************************************************)
(* Bounds of the model.                                                    *)
(***************************************************************************)
MaxLog == 5          \* records in the raw log
MaxKills == 1        \* interrupted data_clean passes
MaxCalls == 2        \* calc_time calls of a calculator session
MaxTicks == 1        \* two-minute advances of the wall clock between resets
MaxTriples == 2      \* sub-exposures of a seq text
MaxIndex == 14       \* readout-mode indices, either side of 0
MaxTasks == 3        \* coroutines that call one CTData object

(***************************************************************************)
(* Python values.                                                          *)
(***************************************************************************)
None == <<>>                     \* None; an int i held by an Optional is <<i>>
Some(i) == <<i>>
Has(record, key) == key \in DOMAIN record      \* key in record.keys()
Truthy(v) == v # ""                            \* bool(v) of a str

\* AbstractCycleTime._NO_TRAIN_COMMANDS
_NO_TRAIN_COMMANDS == {"WAIT"}

\* json.dumps / json.loads: a line of text wrapping the value.  A line has
\* more than one character; the blank text after the last newline has none.
_encode_data(data) == <<"json", data>>
_decode_data(line) == line[2]
Blank == <<>>

\* f.write(data); f.write('\n') in append mode
_add_to_file(file, data) == Append(file, data)

\* f.read() followed by split('\n'): the lines and the blank tail
read_file(file) == Append(file, Blank)

RECURSIVE ParseLoop(_)
ParseLoop(s) ==
    IF s = <<>> THEN <<>>
    ELSE IF Len(Head(s)) > 1
         THEN <<_decode_data(Head(s))>> \o ParseLoop(Tail(s))
         ELSE ParseLoop(Tail(s))

_parse_data(lines) == ParseLoop(lines)

(***************************************************************************)
(* Insertion-ordered dict as a sequence of <<key, value>> pairs.           *)
(***************************************************************************)
Keys(d) == {d[k][1] : k \in 1..Len(d)}
Get(d, key) == LET k == CHOOSE k \in 1..Len(d) : d[k][1] = key IN d[k][2]
\* d[key] = value: in place when the key exists, at the end otherwise
Put(d, key, value) ==
    IF key \in Keys(d)
    THEN [k \in 1..Len(d) |-> IF d[k][1] = key THEN <<key, value>> ELSE d[k]]
    ELSE Append(d, <<key, value>>)
\* d.pop(key)
Pop(d, key) == SelectSeq(d, LAMBDA e : e[1] # key)

(***************************************************************************)
(* CycleTimeDataClean._find_nights_id                                      *)
(***************************************************************************)
IsNightplan(record) == record["command_name"] = "NIGHTPLAN"
Marked(record) == Has(record, "done") \/ Has(record, "skipped")

\* Variant: the night is closed one record later
NightEntryLate(line_started, line_ended, record) ==
    [started |-> line_started, ended |-> line_ended + 1,
     utc_time_stamp |-> record["utc_time_stamp"]]

\* The entry the code stores for a closed night
NightEntry(line_started, line_ended, record) ==
    [started |-> line_started, ended |-> line_ended,
     utc_time_stamp |-> record["utc_time_stamp"]]

\* One iteration of the loop of lines 25-52 on record number current_index.
\* st holds the locals random_id, line_started and full_nights_id.  A lookup
\* of a missing key raises; the except clause continues with the locals as
\* they are at that point.
FindStep(st, record, current_index) ==
    IF ~Has(record, "command_name") THEN st
    ELSE IF ~IsNightplan(record) THEN st
    ELSE IF ~Marked(record)
    THEN \* lines 28-40
         IF ~Has(record, "random_id") THEN st
         ELSE IF st.random_id = record["random_id"] THEN st
         ELSE IF st.line_started # None
              THEN IF ~Has(record, "utc_time_stamp") THEN st
                   ELSE [st EXCEPT
                           !.full_nights_id =
                               Put(@, st.random_id,
                                   NightEntry(st.line_started,
                                              current_index - 1, record)),
                           !.line_started = None]
              ELSE [st EXCEPT !.random_id = record["random_id"],
                              !.line_started = Some(current_index)]
    ELSE \* lines 41-50
         IF ~Has(record, "random_id") THEN st
         ELSE IF st.random_id # record["random_id"] THEN st
         ELSE IF ~Has(record, "utc_time_stamp") THEN st
         ELSE [st EXCEPT
                 !.full_nights_id =
                     Put(@, st.random_id,
                         NightEntry(st.line_started, current_index, record)),
                 !.line_started = None]

RECURSIVE FindLoop(_, _, _)
FindLoop(data, current_index, st) ==
    IF current_index >= Len(data) THEN st.full_nights_id
    ELSE FindLoop(data, current_index + 1,
                  FindStep(st, data[current_index + 1], current_index))

_find_nights_id(data) ==
    FindLoop(data, 0,
             [random_id |-> "", line_started |-> None, full_nights_id |-> <<>>])

(***************************************************************************)
(* CycleTimeDataClean._verify_nights                                       *)
(***************************************************************************)
\* Variant: a night is dropped on its random_id alone
VerifyStepIdOnly(full, record) ==
    IF ~(Len(record) > 1) THEN full
    ELSE LET rd == _decode_data(record) IN
         IF ~Has(rd, "random_id") THEN full
         ELSE IF rd["random_id"] \notin Keys(full) THEN full
         ELSE Pop(full, rd["random_id"])

\* lines 93-100 for one line of the ledger
VerifyStep(full, record) ==
    IF ~(Len(record) > 1) THEN full
    ELSE LET rd == _decode_data(record) IN
         IF ~Has(rd, "random_id") THEN full
         ELSE IF rd["random_id"] \notin Keys(full) THEN full
         ELSE IF ~Has(rd, "utc_time_stamp") THEN full
         ELSE IF rd["utc_time_stamp"]
                   = Get(full, rd["random_id"]).utc_time_stamp
              THEN Pop(full, rd["random_id"])
              ELSE full

RECURSIVE VerifyLoop(_, _)
VerifyLoop(full, records) ==
    IF records = <<>> THEN full
    ELSE VerifyLoop(VerifyStep(full, Head(records)), Tail(records))

\* Variant: the ledger is not consulted
_verify_nights_unread(full_nights, ledger_file) == full_nights

\* ledger_file is the ledger as it is on disk when the pass reads it
_verify_nights(full_nights, ledger_file) ==
    VerifyLoop(full_nights, read_file(ledger_file))

(***************************************************************************)
(* Feature functions of AbstractCycleTime used by the cleaner.             *)
(***************************************************************************)
Abs(x) == IF x < 0 THEN -x ELSE x

\* Variant: the distance is taken without going through north
_az_distance_direct(start, end) == Abs(start - end)

\* AbstractCycleTime._az_distance, on whole degrees
_az_distance(start, end) ==
    IF Abs(start - end) > 180
    THEN IF start > end THEN Abs(start - (end + 360))
                        ELSE Abs(end - (start + 360))
    ELSE Abs(start - end)

(***************************************************************************)
(* CycleTimeDataClean._build_command_data                                  *)
(***************************************************************************)
\* lines 143-156: the "end" variant of a position field when the successor
\* record has it, the "begin" variant otherwise
IndexOf(third, end_key, begin_key) ==
    IF Has(third, end_key) THEN end_key ELSE begin_key

\* The keys whose lookup is inside the try of lines 157-193
FirstKeys == {"command_name", "utc_date_stamp", "utc_time_stamp",
              "dome_az_begin", "mount_alt_begin", "mount_az_begin",
              "filter_pos", "dither"}
ThirdKeys(third) ==
    {"utc_time_stamp",
     IndexOf(third, "dome_az_end", "dome_az_begin"),
     IndexOf(third, "mount_alt_end", "mount_alt_begin"),
     IndexOf(third, "mount_az_end", "mount_az_begin")}

\* Result of a call: it raised, or it returned dat (None or <<the record>>)
Raised == [raised |-> TRUE, dat |-> None]
Returned(dat) == [raised |-> FALSE, dat |-> dat]

\* Variant: the stamps are subtracted the other way round
CycleTimeReversed(first, third) ==
    first["utc_time_stamp"] - third["utc_time_stamp"]

\* line 166
CycleTime(first, third) ==
    third["utc_time_stamp"] - first["utc_time_stamp"]

_build_command_data(data, night_id, line_start) ==
    IF line_start + 2 >= Len(data) THEN Returned(None)       \* IndexError
    ELSE LET first == data[line_start + 1]
             third == data[line_start + 3]
         IN  IF ~Has(third, "command_name") THEN Raised      \* line 138
             ELSE IF IsNightplan(third) /\ ~Marked(third)
                  THEN Returned(None)
             ELSE IF Has(first, "done") /\ Truthy(first["done"])
                  THEN Returned(None)
             ELSE IF ~(FirstKeys \subseteq DOMAIN first)
                     \/ ~(ThirdKeys(third) \subseteq DOMAIN third)
                  THEN Returned(None)                        \* lines 192-193
             ELSE Returned(Some(
                    [night_id |-> night_id,
                     command_name |-> first["command_name"],
                     start_utc_date_stamp |-> first["utc_date_stamp"],
                     cycle_time |-> CycleTime(first, third),
                     dome_distance |->
                         _az_distance(
                             first["dome_az_begin"],
                             third[IndexOf(third, "dome_az_end",
                                           "dome_az_begin")])]))

(***************************************************************************)
(* CycleTimeDataClean._build_commands_data                                 *)
(***************************************************************************)
\* lines 62-67: the records of range(started, ended); None when range raises
MaskedData(data, m_dict) ==
    IF m_dict.started = None THEN None
    ELSE LET started == m_dict.started[1]
             ended == m_dict.ended
         IN  Some([k \in 1..(IF ended > started THEN ended - started ELSE 0)
                     |-> data[started + k]])

\* Variant: the skipped field is tested for truth
NotSkippedTruthy(second) == Truthy(second["skipped"])

\* line 77: the record after the command start says it was not skipped
NotSkipped(second) == second["skipped"] = "False"

\* lines 69-82 from position p_no on; cd is commands_data so far
RECURSIVE CommandLoop(_, _, _, _)
CommandLoop(masked_data, n_id, p_no, cd) ==
    IF p_no >= Len(masked_data) THEN [raised |-> FALSE, commands_data |-> cd]
    ELSE LET q_data == masked_data[p_no + 1] IN
         IF ~Has(q_data, "command_name")                      \* line 70
         THEN [raised |-> TRUE, commands_data |-> cd]
         ELSE
         LET name == q_data["command_name"]
             cd1 == IF name \in Keys(cd) THEN cd ELSE Put(cd, name, <<>>)
             skip == CommandLoop(masked_data, n_id, p_no + 1, cd1)
         IN  IF p_no + 1 >= Len(masked_data) THEN skip        \* IndexError
             ELSE IF ~Has(masked_data[p_no + 2], "skipped") THEN skip
             ELSE IF name \in _NO_TRAIN_COMMANDS THEN skip
             ELSE IF ~NotSkipped(masked_data[p_no + 2]) THEN skip
             ELSE LET r == _build_command_data(masked_data, n_id, p_no) IN
                  IF r.raised THEN [raised |-> TRUE, commands_data |-> cd1]
                  ELSE IF r.dat = None THEN skip
                  ELSE CommandLoop(masked_data, n_id, p_no + 1,
                                   Put(cd1, name,
                                       Append(Get(cd1, name), r.dat[1])))

\* lines 61-83 from night number k of full_nights on
RECURSIVE NightLoop(_, _, _, _)
NightLoop(data, full_nights, k, cd) ==
    IF k > Len(full_nights) THEN [raised |-> FALSE, commands_data |-> cd]
    ELSE LET n_id == full_nights[k][1]
             masked == MaskedData(data, full_nights[k][2])
         IN  IF masked = None THEN NightLoop(data, full_nights, k + 1, cd)
             ELSE LET r == CommandLoop(masked[1], n_id, 0, cd) IN
                  IF r.raised THEN r
                  ELSE NightLoop(data, full_nights, k + 1, r.commands_data)

_build_commands_data(data, full_nights) == NightLoop(data, full_nights, 1, <<>>)

(***************************************************************************)
(* CycleTimeDataClean._save_commands_data_to_files: the appends it makes,  *)
(* in the order it makes them.                                             *)
(***************************************************************************)
RECURSIVE Flatten(_)
Flatten(ss) == IF ss = <<>> THEN <<>> ELSE Head(ss) \o Flatten(Tail(ss))

\* lines 110-115
CleanAppends(cd) ==
    Flatten([k \in 1..Len(cd) |->
               [j \in 1..Len(cd[k][2]) |->
                  [file |-> "clean_data", command |-> cd[k][1],
                   data |-> _encode_data(cd[k][2][j])]]])

\* Variant: the ledger line carries the end index for the time stamp
LedgerAppendsEnded(full_nights) ==
    [k \in 1..Len(full_nights) |->
       [file |-> "night_verif",
        data |-> _encode_data(
                   [random_id |-> full_nights[k][1],
                    utc_time_stamp |-> full_nights[k][2].ended])]]

\* lines 116-124
LedgerAppends(full_nights) ==
    [k \in 1..Len(full_nights) |->
       [file |-> "night_verif",
        data |-> _encode_data(
                   [random_id |-> full_nights[k][1],
                    utc_time_stamp |-> full_nights[k][2].utc_time_stamp])]]

\* Variant: the ledger is written first
_save_ledger_first(cd, full_nights) ==
    LedgerAppends(full_nights) \o CleanAppends(cd)

_save_commands_data_to_files(cd, full_nights) ==
    CleanAppends(cd) \o LedgerAppends(full_nights)

(***************************************************************************)
(* Commands of the calculator.  A command is a mapping with the keys       *)
(* command_name, args and kwargs, each of which may be absent.  A text is  *)
(* the sequence of its characters: the seq text "2/V/10" is                *)
(* <<"2", "/", "V", "/", "1", "0">>.  A numeric kwarg is given as a number *)
(* [num |-> 30] or as its text [str |-> 30]; a time of day "00:01:00" is   *)
(* the sequence of its fields <<0, 1, 0>>.  Seconds and degrees are whole  *)
(* numbers.  A function that may raise gives [exc |-> the exception], or   *)
(* [exc |-> "", ret |-> the value it returns].                             *)
(***************************************************************************)
Num(n) == [num |-> n]
Str(n) == [str |-> n]
\* float(v) of a number or of a numeric text
Float(v) == IF Has(v, "num") THEN v.num ELSE v.str

Gives(value) == [exc |-> "", ret |-> value]
Throws(exc) == [exc |-> exc]

\* str.split(sep): the pieces between the separators, at least one.  at
\* holds the places of the separators, and pos(k) the place of the k-th,
\* with the two ends of the text for k = 0 and for k past the last
Split(s, sep) ==
    LET at == {i \in 1..Len(s) : s[i] = sep}
        n == Cardinality(at)
        pos(k) == IF k = 0 THEN 0
                  ELSE IF k = n + 1 THEN Len(s) + 1
                  ELSE CHOOSE i \in at : Cardinality({j \in at : j <= i}) = k
    IN  [k \in 1..(n + 1) |-> SubSeq(s, pos(k - 1) + 1, pos(k) - 1)]

\* The decimal digits; the digit k is Digits[k + 1]
Digits == <<"0", "1", "2", "3", "4", "5", "6", "7", "8", "9">>
IsDigit(c) == \E k \in 1..Len(Digits) : Digits[k] = c
DigitValue(c) == (CHOOSE k \in 1..Len(Digits) : Digits[k] = c) - 1

RECURSIVE Decimal(_, _)
Decimal(s, acc) ==
    IF s = <<>> THEN acc
    ELSE Decimal(Tail(s), Len(Digits) * acc + DigitValue(Head(s)))

\* int(text), for texts without sign and blanks
IntOf(s) ==
    IF s # <<>> /\ \A k \in 1..Len(s) : IsDigit(s[k])
    THEN Gives(Decimal(s, 0))
    ELSE Throws("ValueError")

\* float(text), for texts of whole seconds
FloatOf(s) == IntOf(s)

\* The value _last_filter returns for a command without seq: the int 0,
\* which no text equals
IntZero == <<"int 0">>

HasSeq(record) == Has(record, "kwargs") /\ Has(record["kwargs"], "seq")

\* text[1:-1]
Inner(s) == IF Len(s) < 2 THEN <<>> ELSE SubSeq(s, 2, Len(s) - 1)

\* lines 280-283: se and a comma, repeat times, less the last character
RECURSIVE Repeated(_, _)
Repeated(se, repeat) ==
    IF repeat <= 0 THEN <<>>
    ELSE IF repeat = 1 THEN se
    ELSE se \o <<",">> \o Repeated(se, repeat - 1)

\* AbstractCycleTime._multiple_seq
_multiple_seq(seq_string) ==
    LET spl_x == Split(seq_string, "x")
        repeat == IntOf(spl_x[1])
    IN  IF repeat.exc # "" THEN Throws(repeat.exc)
        ELSE IF Len(spl_x) < 2 THEN Throws("IndexError")
        ELSE Gives(Repeated(Inner(spl_x[2]), repeat.ret))

\* re.fullmatch(r'\d*x\(.*\)', seq_string)
FullMatch(s) ==
    \E k \in 0..Len(s) :
        /\ \A j \in 1..k : IsDigit(s[j])
        /\ Len(s) >= k + 3
        /\ s[k + 1] = "x"
        /\ s[k + 2] = "("
        /\ s[Len(s)] = ")"

\* AbstractCycleTime.solve_multiple_seq
solve_multiple_seq(seq_string) ==
    IF FullMatch(seq_string) THEN _multiple_seq(seq_string)
    ELSE Gives(seq_string)

\* Seconds of the exposure "a"
AutoExposure == 5

\* lines 251-258: what the sub-exposure with the fields z adds
ExposureTime(z) ==
    LET t == IF z[3] = <<"a">> THEN Gives(AutoExposure) ELSE FloatOf(z[3])
        count == IntOf(z[1])
    IN  IF count.exc = "" /\ t.exc = "" THEN count.ret * t.ret ELSE 1

\* The numbers of a list, added up
RECURSIVE Sum(_)
Sum(s) == IF s = <<>> THEN 0 ELSE Head(s) + Sum(Tail(s))

\* lines 249-258: what the sub-exposures n of s add, unless one of them has
\* no z[2] for line 251
ExposureTimeLoop(s) ==
    IF \E k \in 1..Len(s) : Len(Split(s[k], "/")) < 3
    THEN Throws("IndexError")
    ELSE Gives(Sum([k \in 1..Len(s) |-> ExposureTime(Split(s[k], "/"))]))

\* AbstractCycleTime._exposure_time_sum
_exposure_time_sum(record) ==
    IF HasSeq(record)
    THEN LET seq_res == solve_multiple_seq(record["kwargs"]["seq"]) IN
         IF seq_res.exc # "" THEN seq_res
         ELSE ExposureTimeLoop(Split(seq_res.ret, ","))
    ELSE Gives(0)

\* lines 299-303
RECURSIVE ExposureNumberLoop(_)
ExposureNumberLoop(s) ==
    IF s = <<>> THEN 0
    ELSE LET count == IntOf(Split(Head(s), "/")[1]) IN
         (IF count.exc = "" THEN count.ret ELSE 1)
         + ExposureNumberLoop(Tail(s))

\* AbstractCycleTime._exposure_number
_exposure_number(record) ==
    IF HasSeq(record)
    THEN LET seq_res == solve_multiple_seq(record["kwargs"]["seq"]) IN
         IF seq_res.exc # "" THEN seq_res
         ELSE Gives(ExposureNumberLoop(Split(seq_res.ret, ",")))
    ELSE Gives(0)

\* Variant: the filter of the first sub-exposure is returned
_last_filter_first(record) ==
    IF HasSeq(record)
    THEN LET s == Split(record["kwargs"]["seq"], ",")
             z == Split(s[1], "/")
         IN  IF Len(z) < 2 THEN Throws("IndexError") ELSE Gives(z[2])
    ELSE Gives(IntZero)

\* AbstractCycleTime._last_filter
_last_filter(record) ==
    IF HasSeq(record)
    THEN LET s == Split(record["kwargs"]["seq"], ",")
             z == Split(s[Len(s)], "/")
         IN  IF Len(z) < 2 THEN Throws("IndexError") ELSE Gives(z[2])
    ELSE Gives(IntZero)

\* Variant: every sub-exposure counts as a change of filter
FilterChangesLoopAll(f, s) == Gives(Len(s))

\* lines 329-333: the sub-exposures n of s whose filter z[1] is not the one
\* in place before them, which for the first is f
FilterChangesLoop(f, s) ==
    IF \E k \in 1..Len(s) : Len(Split(s[k], "/")) < 2
    THEN Throws("IndexError")
    ELSE LET before == [k \in 1..Len(s) |->
                          IF k = 1 THEN f ELSE Split(s[k - 1], "/")[2]]
         IN  Gives(Cardinality({k \in 1..Len(s) :
                                  before[k] # Split(s[k], "/")[2]}))

\* AbstractCycleTime._filter_changes
_filter_changes(record) ==
    IF HasSeq(record)
    THEN LET seq_res == solve_multiple_seq(record["kwargs"]["seq"]) IN
         IF seq_res.exc # "" THEN seq_res
         ELSE FilterChangesLoop(record["filter_pos"],
                                Split(seq_res.ret, ","))
    ELSE Gives(0)

\* AbstractCycleTime._POSSIBLE_DITHER
_POSSIBLE_DITHER == {"OBJECT", "SNAP"}

\* AbstractCycleTime._dither_on
_dither_on(command_dict) ==
    LET kw == IF Has(command_dict, "kwargs") THEN command_dict["kwargs"]
              ELSE <<>>
    IN  IF command_dict["command_name"] = "SKYFLAT"
        THEN IF ~Has(kw, "dither") THEN 1
             ELSE IF kw["dither"] # "off" THEN 1 ELSE 0
        ELSE IF command_dict["command_name"] \in _POSSIBLE_DITHER
        THEN IF ~Has(kw, "dither") THEN 0
             ELSE IF kw["dither"] # "off" THEN 1 ELSE 0
        ELSE 1

\* AbstractCycleTime._alt_az_distance: the angle between two directions, in
\* whole degrees.  It is the altitude difference on one azimuth, the
\* azimuth distance on the horizon, and a right angle between a direction
\* on the horizon and one a quarter turn away in azimuth; the positions of
\* the model are all of these kinds.
_alt_az_distance(start_alt, end_alt, start_az, end_az) ==
    IF start_az = end_az THEN Abs(start_alt - end_alt)
    ELSE IF (start_alt = 0 \/ end_alt = 0)
            /\ _az_distance(start_az, end_az) = 90
         THEN 90
    ELSE _az_distance(start_az, end_az)

\* AbstractCycleTime._DEFAULT_RM_MODES_MHZ: the rows of whole MHz
telescope == "dev"
_DEFAULT_RM_MODES_MHZ ==
    [dev |-> <<1, 1, 1, 1, 1, 1, 1>>,
     sim |-> <<1, 1, 1, 1, 1, 1, 1>>,
     default |-> <<1, 1, 1, 1, 1, 1, 1, 1, 1, 1, 1, 1, 1>>]

\* list[i] of Python: i counts from 0, and from the end when negative
Item(list, i) ==
    IF 0 <= i /\ i < Len(list) THEN Gives(list[i + 1])
    ELSE IF -Len(list) <= i /\ i < 0 THEN Gives(list[Len(list) + i + 1])
    ELSE Throws("IndexError")

\* 1/rm_mode_val: the fraction <<1, rm_mode_val>>
Reciprocal(rm_mode_val) ==
    IF rm_mode_val.exc # "" THEN rm_mode_val
    ELSE IF rm_mode_val.ret = 0 THEN Throws("ZeroDivisionError")
    ELSE Gives(<<1, rm_mode_val.ret>>)

\* lines 157-159
OwnEntry(rm_modes, tel, rm_mode) == Reciprocal(Item(rm_modes[tel], rm_mode))

\* rm_modes['default'][rm_mode] and its reciprocal
DefaultEntry(rm_modes, rm_mode) ==
    IF ~Has(rm_modes, "default") THEN Throws("KeyError")
    ELSE Reciprocal(Item(rm_modes["default"], rm_mode))

\* AbstractCycleTime._rm_mode_inverse_mhz
_rm_mode_inverse_mhz(rm_mode, tel, rm_modes) ==
    LET modes == IF rm_modes = None THEN _DEFAULT_RM_MODES_MHZ ELSE rm_modes
    IN  IF Has(modes, tel)
        THEN IF Len(modes[tel]) - 1 >= rm_mode
             THEN LET own == OwnEntry(modes, tel, rm_mode) IN
                  IF own.exc \in {"IndexError", "ZeroDivisionError"}
                  THEN DefaultEntry(modes, rm_mode)
                  ELSE own
             ELSE DefaultEntry(modes, rm_mode)
        ELSE DefaultEntry(modes, rm_mode)

\* A fraction times a whole number, for fractions that give a whole number
Times(fraction, n) == (fraction[1] * n) \div fraction[2]

(***************************************************************************)
(* CycleTimeCalc.  self is the mapping of the attributes of the object; a  *)
(* method gives the exception it raises ("" when it returns), the value it *)
(* returns and the attributes it leaves.                                   *)
(***************************************************************************)
Self ==
    [_time_length |-> _time_length, _start_time |-> _start_time,
     _alt_mount |-> _alt_mount, _az_mount |-> _az_mount,
     _az_dome |-> _az_dome, _current_filter |-> _current_filter,
     _rmode |-> _rmode]

Ret(value, self) == [exc |-> "", ret |-> value, self |-> self]
Raise(exc, self) == [exc |-> exc, ret |-> None, self |-> self]

\* CycleTimeCalc.USE_OBJECT_PARAMS_IN
USE_OBJECT_PARAMS_IN == {"DARK", "ZERO", "SNAP"}

\* AbstractCycleTime._X_COLUMNS
_X_COLUMNS == <<"dome_distance", "mount_distance", "exposure_time_sum",
                "filter_changes", "rmmode_expno", "dither_expno">>

\* CycleTimeCalc._alt_limit, as the constructor sets it
_alt_limit == 15

\* CycleTimeCalc._avialable_param_telesc_commands
_avialable_param_telesc_commands ==
    IF Has(available_param, telescope)
    THEN DOMAIN available_param[telescope] \ _NO_TRAIN_COMMANDS
    ELSE {}

\* Variant: the features are summed without their coefficients
RECURSIVE LinearLoopUnweighted(_, _, _)
LinearLoopUnweighted(features, coef, k) ==
    IF k > Len(_X_COLUMNS) THEN 0
    ELSE features[_X_COLUMNS[k]]
         + LinearLoopUnweighted(features, coef, k + 1)

\* lines 460-467: the linear model over the features in the order given
RECURSIVE LinearLoop(_, _, _)
LinearLoop(features, coef, k) ==
    IF k > Len(_X_COLUMNS) THEN 0
    ELSE features[_X_COLUMNS[k]] * coef[_X_COLUMNS[k]]
         + LinearLoop(features, coef, k + 1)

\* CycleTimeCalc._calc_time: None, or <<the value of the model>>
_calc_time(command_name, command_dict_param) ==
    LET name == IF command_name \in USE_OBJECT_PARAMS_IN THEN "OBJECT"
                ELSE command_name
    IN  IF ~Has(available_param, telescope)
           \/ ~Has(available_param[telescope], name)
        THEN [exc |-> "KeyError", ret |-> None]
        ELSE LET param == available_param[telescope][name] IN
             IF ~Has(param, "coef") THEN [exc |-> "KeyError", ret |-> None]
             ELSE IF \E k \in 1..Len(_X_COLUMNS) :
                        ~Has(param["coef"], _X_COLUMNS[k])
                  THEN [exc |-> "", ret |-> None]
             ELSE IF ~Has(param, "intercept")
                  THEN [exc |-> "KeyError", ret |-> None]
             ELSE [exc |-> "",
                   ret |-> Some(LinearLoop(command_dict_param,
                                           param["coef"], 1)
                                + param["intercept"])]

\* CycleTimeCalc._mount_altaz_target: None, or <<[az, alt]>>.  sky is the
\* position ra_dec_2_az_alt gives for the coordinates of the command at the
\* simulated instant.
_mount_altaz_target(command_dict, sky) ==
    LET coords == Has(command_dict, "args")
                  /\ Len(command_dict["args"]) \in {2, 3}
    IN  IF coords THEN [exc |-> "", ret |-> Some(sky)]
        ELSE IF Has(command_dict, "kwargs")
                /\ Has(command_dict["kwargs"], "alt")      \* line 229
        THEN IF ~Has(command_dict["kwargs"], "az")
             THEN [exc |-> "KeyError", ret |-> None]
             ELSE [exc |-> "",
                   ret |-> Some([az |-> Float(command_dict["kwargs"]["az"]),
                                 alt |-> Float(command_dict["kwargs"]["alt"])])]
        ELSE [exc |-> "", ret |-> None]

\* CycleTimeCalc.forced_readout_mode: the exception and the readout-mode
\* index it leaves
forced_readout_mode(self, command_dict) ==
    IF Has(command_dict, "kwargs") /\ Has(command_dict["kwargs"], "read_mod")
    THEN LET new_rm == command_dict["kwargs"]["read_mod"] IN
         IF _set_rm_modes = None THEN [exc |-> "TypeError", _rmode |-> self._rmode]
         ELSE IF ~Has(_set_rm_modes, telescope)
              THEN [exc |-> "KeyError", _rmode |-> self._rmode]
         ELSE IF \E k \in 1..Len(_set_rm_modes[telescope]) :
                    _set_rm_modes[telescope][k] = new_rm
              THEN [exc |-> "", _rmode |-> new_rm]
         ELSE [exc |-> "", _rmode |-> self._rmode]
    ELSE [exc |-> "", _rmode |-> self._rmode]

\* Variant: the stored averages are not used
AverageDistUnused(command_dict, key) == 0

\* lines 264-269: the stored averages of the command; both are 0.0 when one
\* of the two lookups fails
AverageDist(command_dict, key) ==
    IF Has(available_param, telescope)
       /\ Has(available_param[telescope], command_dict["command_name"])
       /\ Has(available_param[telescope][command_dict["command_name"]],
              "dome_average_dist")
       /\ Has(available_param[telescope][command_dict["command_name"]],
              "mount_average_dist")
    THEN available_param[telescope][command_dict["command_name"]][key]
    ELSE 0

\* Variant: a value of the model below zero is returned as it is
ClampKept(time_cal) == IF time_cal = None THEN 0 ELSE time_cal[1]

\* lines 287-293: None, zero and negative values give 0.0
Clamp(time_cal) ==
    IF time_cal # None /\ time_cal[1] # 0
    THEN IF time_cal[1] >= 0 THEN time_cal[1] ELSE 0
    ELSE 0

\* Variant: the target is taken as the position also when the command is
\* skipped for its altitude
SkippedBelowLimitNever(alt) == FALSE

\* line 252, negated: the command is skipped for its altitude
SkippedBelowLimit(alt) == ~(alt >= _alt_limit \/ (alt < _alt_limit /\ ~_skipping))

\* lines 282-295, with the readout-mode index and the features at hand
ModelTimeOf(self1, command_dict, dome_az_dist, mount_alt_az_dist, exp_no, exposure_time_sum, filter_changes, inv_mhz, last_filter) ==
    LET dither == _dither_on(command_dict)
        command_dict_param ==
            [dome_distance |-> dome_az_dist,
             mount_distance |-> mount_alt_az_dist,
             exposure_time_sum |-> exposure_time_sum.ret,
             filter_changes |-> filter_changes.ret,
             rmmode_expno |-> Times(inv_mhz.ret, exp_no.ret),
             dither_expno |-> dither * exp_no.ret]
        self2 == [self1 EXCEPT !._current_filter = last_filter.ret]
        time_cal == _calc_time(command_dict["command_name"],
                               command_dict_param)
        comm_time == Clamp(time_cal.ret)
    IN  IF inv_mhz.exc # "" THEN Raise(inv_mhz.exc, self1)
        ELSE IF last_filter.exc # "" THEN Raise(last_filter.exc, self1)
        ELSE IF time_cal.exc # "" THEN Raise(time_cal.exc, self2)
        ELSE Ret(comm_time,
                 [self2 EXCEPT !._time_length = @ + comm_time])

\* lines 272-281, with the features at hand
ModelTimeWith(self, command_dict, dome_az_dist, mount_alt_az_dist, exp_no, exposure_time_sum, filter_changes, frm, last_filter) ==
    IF exp_no.exc # "" THEN Raise(exp_no.exc, self)
    ELSE IF exposure_time_sum.exc # ""
    THEN Raise(exposure_time_sum.exc, self)
    ELSE IF filter_changes.exc # "" THEN Raise(filter_changes.exc, self)
    ELSE IF frm.exc # "" THEN Raise(frm.exc, self)
    ELSE ModelTimeOf([self EXCEPT !._rmode = frm._rmode], command_dict,
                     dome_az_dist, mount_alt_az_dist, exp_no,
                     exposure_time_sum, filter_changes,
                     _rm_mode_inverse_mhz(frm._rmode, telescope,
                                          _set_rm_modes),
                     last_filter)

\* lines 270-295, after the distances are known
ModelTime(self, command_dict, dome_az_dist, mount_alt_az_dist) ==
    ModelTimeWith(self, command_dict, dome_az_dist, mount_alt_az_dist,
                  _exposure_number(command_dict),
                  _exposure_time_sum([filter_pos |-> self._current_filter]
                                     @@ command_dict),
                  _filter_changes([filter_pos |-> self._current_filter]
                                  @@ command_dict),
                  forced_readout_mode(self, command_dict),
                  _last_filter([filter_pos |-> self._current_filter]
                               @@ command_dict))

\* Variant: the mount goes to the target and the dome stays
MountMovedTo(self, azalt) ==
    [self EXCEPT !._alt_mount = azalt.alt, !._az_mount = azalt.az]

\* lines 257-259: mount and dome go to the target
MovedTo(self, azalt) ==
    [self EXCEPT !._alt_mount = azalt.alt,
                 !._az_mount = azalt.az,
                 !._az_dome = azalt.az]

\* CycleTimeCalc._calc_time_no_wait_commands
_calc_time_no_wait_commands(self, command_dict, sky) ==
    LET target == _mount_altaz_target(command_dict, sky) IN
    IF target.exc # "" THEN Raise(target.exc, self)
    ELSE IF target.ret # None /\ ~tpg
    THEN LET azalt == target.ret[1] IN
         IF ~SkippedBelowLimit(azalt.alt)
         THEN ModelTime(MovedTo(self, azalt),
                        command_dict,
                        _az_distance(self._az_dome, azalt.az),
                        _alt_az_distance(self._alt_mount, azalt.alt,
                                         self._az_mount, azalt.az))
         ELSE Ret(0, self)
    ELSE IF tpg
    THEN ModelTime(self, command_dict,
                   AverageDist(command_dict, "dome_average_dist"),
                   AverageDist(command_dict, "mount_average_dist"))
    ELSE ModelTime(self, command_dict, 0, 0)

\* Seconds of a day: datetime.timedelta(days=1).total_seconds()
SecondsPerDay == 86400

\* CycleTimeCalc._that_day_time: the instant of the time of day time_str on
\* the day of date_time_stamp; strptime raises unless time_str has the three
\* fields of "%H:%M:%S"
_that_day_time(date_time_stamp, time_str) ==
    IF Len(time_str) # 3
       \/ time_str[1] \notin 0..23 \/ time_str[2] \notin 0..59
       \/ time_str[3] \notin 0..59
    THEN [exc |-> "ValueError", ret |-> None]
    ELSE [exc |-> "",
          ret |-> Some((date_time_stamp \div SecondsPerDay) * SecondsPerDay
                       + time_str[1] * 3600 + time_str[2] * 60 + time_str[3])]

\* Variant: t is returned without being added to the accumulated time
WaitedNotAdded(self, t) == Ret(t, self)

\* Adds t to the accumulated time and returns it
Waited(self, t) == Ret(t, [self EXCEPT !._time_length = @ + t])

\* lines 326-344 and 346-365.  eph is what calculate_sun_rise_set gives: it
\* raises AttributeError, or the event is eph.seconds after the simulated
\* instant; hours is the longest wait accepted.
SunWait(self, eph, hours) ==
    IF Has(eph, "exc") THEN Ret(0, self)
    ELSE IF eph.seconds > hours * 3600 THEN Ret(0, self)
    ELSE Waited(self, eph.seconds)

\* line 321: the next day is looked up with the text of the command
NextDayTime(ut) == ut

\* Variant: the if/elif chain of lines 301-365 asks for sunset first and
\* for sec last
WaitKindReversed(kwargs) ==
    IF Has(kwargs, "sunset") THEN "sunset"
    ELSE IF Has(kwargs, "sunrise") THEN "sunrise"
    ELSE IF Has(kwargs, "ut") THEN "ut"
    ELSE IF Has(kwargs, "sec") THEN "sec"
    ELSE "none"

\* The branch of the if/elif chain of lines 301, 306, 326, 346 and 367 that
\* is taken for kwargs
WaitKind(kwargs) ==
    IF Has(kwargs, "sec") THEN "sec"
    ELSE IF Has(kwargs, "ut") THEN "ut"
    ELSE IF Has(kwargs, "sunrise") THEN "sunrise"
    ELSE IF Has(kwargs, "sunset") THEN "sunset"
    ELSE "none"

\* CycleTimeCalc._calc_time_wait_command
_calc_time_wait_command(self, command_dict, eph) ==
    IF command_dict["command_name"] # "WAIT" THEN Ret(0, self)
    ELSE IF ~Has(command_dict, "kwargs") THEN Ret(0, self)
    ELSE LET kwargs == command_dict["kwargs"]
             now == self._start_time + self._time_length
         IN
         IF WaitKind(kwargs) = "sec"
         THEN Waited(self, Float(kwargs["sec"]))
         ELSE IF WaitKind(kwargs) = "ut"
         THEN LET val == kwargs["ut"]
                  ut_str == IF Len(val) = 2 THEN val \o <<0>> ELSE val
                  target_0 == _that_day_time(now, ut_str)
                  target_1 == _that_day_time(now + SecondsPerDay,
                                             NextDayTime(val))
              IN  IF target_0.exc # "" THEN Raise(target_0.exc, self)
                  ELSE IF target_0.ret[1] >= now
                       THEN Waited(self, target_0.ret[1] - now)
                  ELSE IF target_1.exc # "" THEN Raise(target_1.exc, self)
                  ELSE Waited(self, target_1.ret[1] - now)
         ELSE IF WaitKind(kwargs) = "sunrise" THEN SunWait(self, eph, 18)
         ELSE IF WaitKind(kwargs) = "sunset" THEN SunWait(self, eph, 12)
         ELSE Ret(0, self)

(***************************************************************************)
(* CycleTimeCalc.calc_time.  The argument is a text, [conv |-> what        *)
(* ObsPlanParser.convert_from_string makes of it]; a mapping,              *)
(* [dict |-> the mapping]; or something else, [other |-> TRUE].  The       *)
(* result says whether the call appended to the history list.              *)
(***************************************************************************)
Outcome(r, appended) ==
    [exc |-> r.exc, ret |-> r.ret, self |-> r.self, appended |-> appended]

\* lines 408-419, for the mapping at hand
Dispatch(self, command_dict, sky, eph) ==
    IF ~Has(command_dict, "command_name")
    THEN Outcome(Ret(0, self), FALSE)                     \* KeyError, caught
    ELSE LET r == IF command_dict["command_name"]
                       \in _avialable_param_telesc_commands
                  THEN _calc_time_no_wait_commands(self, command_dict, sky)
                  ELSE IF command_dict["command_name"] \in _NO_TRAIN_COMMANDS
                  THEN _calc_time_wait_command(self, command_dict, eph)
                  ELSE Ret(0, self)
         IN  IF r.exc = "KeyError" THEN Outcome(Ret(0, r.self), FALSE)
             ELSE IF r.exc # "" THEN Outcome(r, FALSE)
             ELSE Outcome(r, TRUE)

\* Variant: the accumulated time is lost when the argument is rejected
RejectedAfterReset(self) ==
    Raise("TypeError", [self EXCEPT !._time_length = 0])

\* lines 405-407: an argument that is neither a text nor a mapping
Rejected(self) == Raise("TypeError", self)

calc_time(self, command, sky, eph) ==
    IF Has(command, "conv")
    THEN IF Has(command.conv, "subcommands")
            /\ command.conv["subcommands"] # <<>>
         THEN Dispatch(self, command.conv["subcommands"][1], sky, eph)
         ELSE Outcome(Raise("TypeError", self), FALSE)    \* str['command_name']
    ELSE IF Has(command, "dict")
    THEN Dispatch(self, command.dict, sky, eph)
    ELSE Outcome(Rejected(self), FALSE)

(***************************************************************************)
(* The trained parameter sets a calculator may find at construction, as    *)
(* _save_train_param_to_file writes them (six coefficients, intercept,     *)
(* averages), and one written with fewer columns.                          *)
(***************************************************************************)
Coef(dome, mount, exposure, filter, rmmode, dither) ==
    [dome_distance |-> dome, mount_distance |-> mount,
     exposure_time_sum |-> exposure, filter_changes |-> filter,
     rmmode_expno |-> rmmode, dither_expno |-> dither]

Params(coef, intercept) ==
    [coef |-> coef, intercept |-> intercept,
     dome_average_dist |-> 30, mount_average_dist |-> 20]

ExampleParams == Params(Coef(0, 0, 1, 0, 0, 0), 5)
GeometryParams == Params(Coef(1, 2, 1, 3, 4, 5), 0)
NegativeParams == Params(Coef(0, 0, 1, 0, 0, 0), -20)
PartialParams ==
    Params([dome_distance |-> 0, mount_distance |-> 0,
            exposure_time_sum |-> 1], 5)

\* A parameter set without the two averages
BareParams == [coef |-> Coef(1, 2, 1, 3, 4, 5), intercept |-> 0]

AvailableParams ==
    {[dev |-> [OBJECT |-> ExampleParams]],
     [dev |-> [OBJECT |-> BareParams]],
     [dev |-> [OBJECT |-> GeometryParams]],
     [dev |-> [OBJECT |-> NegativeParams]],
     [dev |-> [OBJECT |-> PartialParams]],
     [dev |-> [OBJECT |-> ExampleParams, DARK |-> GeometryParams]],
     [dev |-> [DARK |-> GeometryParams]],
     <<>>}

\* CycleTimeCalc.__init__, with what _get_params read and the tpg flag
__init__(params, flag) ==
    /\ available_param = params
    /\ tpg = flag
    /\ _rmode = 0
    /\ _current_filter = <<>>
    /\ _alt_mount = 70
    /\ _az_mount = 0
    /\ _az_dome = 0
    /\ _time_length = 0
    /\ _skipping = FALSE
    /\ utcnow = 0
    /\ _start_time = utcnow
    /\ _time_length_list = <<>>
    /\ _set_rm_modes = None
    /\ last = [op |-> "__init__"]
    /\ returned = <<>>

(***************************************************************************)
(* The raw log.  CycleTimeDataBuild.save_to_log stamps the collected       *)
(* mapping with the clock and appends it as one line; the clock is a       *)
(* logical one that advances with every record.  The collected mapping     *)
(* keeps the keys inserted earlier, so every record carries the position,  *)
(* filter and dither fields.                                               *)
(***************************************************************************)
RandomIds == {"A", "B"}
Commands == {"NIGHTPLAN", "OBJECT", "WAIT"}

Telemetry ==
    [dome_az_begin |-> 350, mount_alt_begin |-> 45, mount_az_begin |-> 350,
     filter_pos |-> "V", dither |-> "False"]

NightStart(r) == [command_name |-> "NIGHTPLAN", random_id |-> r] @@ Telemetry
NightEnd(r) ==
    (IF r = "A"
     THEN [command_name |-> "NIGHTPLAN", random_id |-> r, done |-> "True"]
     ELSE [command_name |-> "NIGHTPLAN", random_id |-> r, skipped |-> "True"])
    @@ Telemetry
Executed(name) == [command_name |-> name, skipped |-> "False"] @@ Telemetry
Nameless == [skipped |-> "False"] @@ Telemetry

\* The mappings a record of the log is drawn from
Collected ==
    {NightStart(r) : r \in RandomIds} \cup {NightEnd(r) : r \in RandomIds}
    \cup {Executed("OBJECT"), Executed("WAIT"), Nameless}

_time_stamp == Len(raw_data) + 1

save_to_log(data) ==
    _add_to_file(raw_data,
                 _encode_data([utc_date_stamp |-> _time_stamp,
                               utc_time_stamp |-> _time_stamp] @@ data))

(***************************************************************************)
(* State machine.                                                          *)
(***************************************************************************)
Init ==
    /\ raw_data = <<>>
    /\ night_verif = <<>>
    /\ clean_data = [c \in Commands |-> <<>>]
    /\ pc = "idle"
    /\ parsed_data = <<>>
    /\ found_nights = <<>>
    /\ full_nights_id = <<>>
    /\ commands_data = <<>>
    /\ n_written = 0
    /\ fresh = FALSE
    /\ rerun = FALSE
    /\ kills = 0
    /\ __init__([dev |-> [OBJECT |-> ExampleParams]], FALSE)
    /\ call = None
    /\ pair = None
    /\ ct = None
    /\ train = None

\* The collector appends one record to the raw log, between two passes or
\* while a pass is saving
SaveToLog ==
    /\ pc \in {"idle", "saving"}
    /\ Len(raw_data) < MaxLog
    /\ \E data \in Collected : raw_data' = save_to_log(data)
    /\ fresh' = FALSE
    /\ UNCHANGED <<night_verif, clean_data, pc, parsed_data, found_nights,
                   full_nights_id, commands_data, n_written, rerun, kills>>
    /\ UNCHANGED <<calcvars, othervars>>

\* The appends of the pass in progress
Appends == _save_commands_data_to_files(commands_data, full_nights_id)

\* data_clean, lines 201-214: read and parse the raw log, find the nights,
\* drop those of the ledger, build the feature records.  Nothing is written:
\* the pass returns on an empty log, raises when _build_commands_data
\* raises, and goes on to save otherwise.
DataClean ==
    /\ pc = "idle"
    /\ rerun' = fresh
    /\ fresh' = TRUE
    /\ n_written' = 0
    /\ IF raw_data = <<>>
       THEN /\ pc' = "done"
            /\ parsed_data' = <<>>
            /\ found_nights' = <<>>
            /\ full_nights_id' = <<>>
            /\ commands_data' = <<>>
       ELSE LET data == _parse_data(read_file(raw_data))
                found == _find_nights_id(data)
                full == _verify_nights(found, night_verif)
                built == _build_commands_data(data, full)
            IN  /\ parsed_data' = data
                /\ found_nights' = found
                /\ full_nights_id' = full
                /\ commands_data' =
                       IF built.raised THEN <<>> ELSE built.commands_data
                /\ pc' = IF built.raised THEN "raised"
                         ELSE IF _save_commands_data_to_files(
                                     built.commands_data, full) = <<>>
                              THEN "done" ELSE "saving"
    /\ UNCHANGED <<raw_data, night_verif, clean_data, kills>>
    /\ UNCHANGED <<calcvars, othervars>>

\* One append of _save_commands_data_to_files
Save ==
    /\ pc = "saving"
    /\ LET a == Appends[n_written + 1] IN
       IF a.file = "clean_data"
       THEN /\ clean_data' = [clean_data EXCEPT
                                ![a.command] = _add_to_file(@, a.data)]
            /\ UNCHANGED night_verif
       ELSE /\ night_verif' = _add_to_file(night_verif, a.data)
            /\ UNCHANGED clean_data
    /\ n_written' = n_written + 1
    /\ pc' = IF n_written + 1 = Len(Appends) THEN "done" ELSE "saving"
    /\ UNCHANGED <<raw_data, parsed_data, found_nights, full_nights_id,
                   commands_data, fresh, rerun, kills>>
    /\ UNCHANGED <<calcvars, othervars>>

\* The process is interrupted between two appends
Kill ==
    /\ pc = "saving"
    /\ kills < MaxKills
    /\ pc' = "killed"
    /\ kills' = kills + 1
    /\ fresh' = FALSE
    /\ UNCHANGED <<raw_data, night_verif, clean_data, parsed_data,
                   found_nights, full_nights_id, commands_data, n_written,
                   rerun>>
    /\ UNCHANGED <<calcvars, othervars>>

\* The pass is over (it returned, raised or was interrupted): its locals go
Return ==
    /\ pc \in {"done", "raised", "killed"}
    /\ pc' = "idle"
    /\ parsed_data' = <<>>
    /\ found_nights' = <<>>
    /\ full_nights_id' = <<>>
    /\ commands_data' = <<>>
    /\ n_written' = 0
    /\ rerun' = FALSE
    /\ UNCHANGED <<raw_data, night_verif, clean_data, fresh, kills>>
    /\ UNCHANGED <<calcvars, othervars>>

Next == SaveToLog \/ DataClean \/ Save \/ Kill \/ Return

Spec == Init /\ [][Next]_vars

(***************************************************************************)
(* A calculator session: the arguments calc_time is called with.  Targets  *)
(* are at altitude 45 on azimuth 0 and on the horizon at azimuth 90.       *)
(***************************************************************************)
\* The seq text "1/V/10"
OneExposure == <<"1", "/", "V", "/", "1", "0">>
TwoExposures == <<"1", "/", "V", "/", "1", ",", "1", "/", "B", "/", "1">>

Mappings ==
    {[command_name |-> "OBJECT", kwargs |-> [seq |-> OneExposure]],
     [command_name |-> "OBJECT",
      kwargs |-> [az |-> Str(0), alt |-> Str(45), seq |-> OneExposure]],
     [command_name |-> "OBJECT",
      kwargs |-> [az |-> Num(90), alt |-> Num(0), seq |-> OneExposure]],
     [command_name |-> "OBJECT", args |-> <<"ra", "dec">>,
      kwargs |-> [seq |-> <<"2", "/", "B", "/", "5">>]],
     [command_name |-> "DARK", kwargs |-> [seq |-> OneExposure]],
     [command_name |-> "OBJECT",
      kwargs |-> [seq |-> OneExposure, read_mod |-> 1]],
     [command_name |-> "OBJECT", kwargs |-> [seq |-> <<"1", "/", "V">>]],
     [command_name |-> "OBJECT", kwargs |-> [seq |-> TwoExposures]],
     [command_name |-> "OBJECT", kwargs |-> [az |-> Num(90), alt |-> Num(0)]],
     [command_name |-> "WAIT", kwargs |-> [wait |-> Num(40)]],
     [command_name |-> "WAIT", kwargs |-> [sec |-> Num(30)]],
     [command_name |-> "WAIT", kwargs |-> [sec |-> Str(30)]],
     [command_name |-> "WAIT", kwargs |-> [sec |-> Num(-30)]],
     [command_name |-> "WAIT", kwargs |-> [ut |-> <<0, 1>>]],
     [command_name |-> "WAIT", kwargs |-> [ut |-> <<0, 1, 0>>]],
     [command_name |-> "WAIT", kwargs |-> [sunrise |-> Num(0)]],
     [command_name |-> "WAIT", kwargs |-> [sunset |-> Num(0)]],
     [command_name |-> "WAIT",
      kwargs |-> [sec |-> Num(30), ut |-> <<0, 1>>]],
     [command_name |-> "WAIT",
      kwargs |-> [ut |-> <<0, 1, 0>>, sunrise |-> Num(0)]],
     [command_name |-> "WAIT",
      kwargs |-> [sunrise |-> Num(0), sunset |-> Num(0)]],
     [command_name |-> "WAIT"],
     [command_name |-> "FOCUS"],
     [kwargs |-> [sec |-> Num(30)]]}

\* Texts: one ObsPlanParser turns into a command, one it finds no command in
Texts ==
    {[conv |-> [subcommands |->
                  <<[command_name |-> "OBJECT",
                     kwargs |-> [az |-> Str(0), alt |-> Str(45),
                                 seq |-> OneExposure]]>>]],
     [conv |-> [subcommands |-> <<>>]]}

Arguments == {[dict |-> m] : m \in Mappings} \cup Texts \cup {[other |-> TRUE]}

\* The mapping the call works on, if it gets to one
CommandOf(command) ==
    IF Has(command, "dict") THEN Some(command.dict)
    ELSE IF Has(command, "conv") /\ Has(command.conv, "subcommands")
            /\ command.conv["subcommands"] # <<>>
         THEN Some(command.conv["subcommands"][1])
    ELSE None

\* What ra_dec_2_az_alt may give for the coordinates of the command
Skies(command) ==
    IF CommandOf(command) # None /\ Has(CommandOf(command)[1], "args")
    THEN {[az |-> 0, alt |-> 45], [az |-> 90, alt |-> 0]}
    ELSE {[az |-> 0, alt |-> 45]}

\* What calculate_sun_rise_set may give for the command: the event comes in
\* one hour, in more than twelve hours, in more than eighteen hours, or the
\* lookup raises
Ephemerides(command) ==
    IF CommandOf(command) # None /\ Has(CommandOf(command)[1], "kwargs")
       /\ (Has(CommandOf(command)[1]["kwargs"], "sunrise")
           \/ Has(CommandOf(command)[1]["kwargs"], "sunset"))
    THEN {[seconds |-> 3600], [seconds |-> 50000], [seconds |-> 70000],
          [exc |-> "AttributeError"]}
    ELSE {[seconds |-> 3600]}

InitCalc ==
    /\ raw_data = <<>>
    /\ night_verif = <<>>
    /\ clean_data = [c \in Commands |-> <<>>]
    /\ pc = "idle"
    /\ parsed_data = <<>>
    /\ found_nights = <<>>
    /\ full_nights_id = <<>>
    /\ commands_data = <<>>
    /\ n_written = 0
    /\ fresh = FALSE
    /\ rerun = FALSE
    /\ kills = 0
    /\ \E params \in AvailableParams, flag \in BOOLEAN : __init__(params, flag)
    /\ call = None
    /\ pair = None
    /\ ct = None
    /\ train = None

\* The attributes, the history list and the records of the call after a
\* call of calc_time with outcome o
\* Variant: the call works on the mapping of the caller itself
SameMapping(command_dict) == "caller"

\* line 404, dict(command_dict): the call works on a new mapping with the
\* keys and values of the caller's
DictCopy(command_dict) == "copy"

\* The call given the mapping gets to line 277, which sets filter_pos in
\* the mapping it works on
SetsFilterPos(self, command_dict, sky) ==
    /\ Has(command_dict, "command_name")
    /\ command_dict["command_name"] \in _avialable_param_telesc_commands
    /\ LET target == _mount_altaz_target(command_dict, sky)
       IN  /\ target.exc = ""
           /\ ~(target.ret # None /\ ~tpg /\ SkippedBelowLimit(target.ret[1].alt))
    /\ _exposure_number(command_dict).exc = ""

\* The mapping of the caller when the call is over, None for a call that
\* was not given a mapping
CallerMapping(self, command, sky) ==
    IF ~Has(command, "dict") THEN None
    ELSE IF DictCopy(command.dict) = "caller" /\ SetsFilterPos(self, command.dict, sky)
         THEN Some([filter_pos |-> self._current_filter] @@ command.dict)
         ELSE Some(command.dict)

Called_calc_time(command, sky, eph, o) ==
    /\ _time_length' = o.self._time_length
    /\ _alt_mount' = o.self._alt_mount
    /\ _az_mount' = o.self._az_mount
    /\ _az_dome' = o.self._az_dome
    /\ _current_filter' = o.self._current_filter
    /\ _rmode' = o.self._rmode
    /\ _start_time' = o.self._start_time
    /\ _time_length_list' =
           IF o.appended THEN Append(_time_length_list, o.ret)
           ELSE _time_length_list
    /\ last' = [op |-> "calc_time", command |-> command, sky |-> sky,
                eph |-> eph, exc |-> o.exc, ret |-> o.ret,
                after |-> CallerMapping(Self, command, sky)]
    /\ returned' = Append(returned, [exc |-> o.exc, ret |-> o.ret])

\* One call of calc_time
CalcTime ==
    /\ Len(returned) < MaxCalls
    /\ \E command \in Arguments :
       \E sky \in Skies(command), eph \in Ephemerides(command) :
          Called_calc_time(command, sky, eph,
                           calc_time(Self, command, sky, eph))
    /\ UNCHANGED <<available_param, tpg, _set_rm_modes, _skipping, utcnow>>
    /\ UNCHANGED <<cleanvars, othervars>>

\* Variant: the simulated position, filter and readout mode are set back to
\* those of a new calculator
reset_time_and_state(self, now) ==
    [self EXCEPT !._start_time = now, !._time_length = 0,
                 !._alt_mount = 70, !._az_mount = 0, !._az_dome = 0,
                 !._current_filter = <<>>, !._rmode = 0]

\* CycleTimeCalc.reset_time, with now the reading of the wall clock: the
\* attributes it leaves (the history list is emptied by the action)
reset_time(self, now) ==
    [self EXCEPT !._start_time = now, !._time_length = 0]

\* One call of reset_time; the wall clock has not gone back
ResetTime ==
    /\ \E now \in {utcnow, utcnow + 120} :
          /\ now <= MaxTicks * 120
          /\ utcnow' = now
    /\ LET self == reset_time(Self, utcnow') IN
          /\ _start_time' = self._start_time
          /\ _time_length' = self._time_length
          /\ _alt_mount' = self._alt_mount
          /\ _az_mount' = self._az_mount
          /\ _az_dome' = self._az_dome
          /\ _current_filter' = self._current_filter
          /\ _rmode' = self._rmode
    /\ _time_length_list' = <<>>
    /\ last' = [op |-> "reset_time"]
    /\ returned' = <<>>
    /\ UNCHANGED <<available_param, tpg, _set_rm_modes, _skipping>>
    /\ UNCHANGED <<cleanvars, othervars>>

\* CycleTimeCalc.set_skipping
SetSkipping ==
    /\ \E skipping \in BOOLEAN :
          /\ skipping # _skipping
          /\ _skipping' = skipping
    /\ last' = [op |-> "set_skipping"]
    /\ UNCHANGED <<available_param, tpg, _time_length, _time_length_list,
                   _start_time, _alt_mount, _az_mount, _az_dome,
                   _current_filter, _rmode, _set_rm_modes, utcnow, returned>>
    /\ UNCHANGED <<cleanvars, othervars>>

NextCalc == CalcTime \/ ResetTime \/ SetSkipping

SpecCalc == InitCalc /\ [][NextCalc]_vars

(***************************************************************************)
(* Two CycleTimeCalc objects side by side.  They are built from the same   *)
(* trained parameters with the same flag, at wall-clock readings that may  *)
(* differ, are given the same start time and then the same commands.       *)
(* ra_dec_2_az_alt and calculate_sun_rise_set answer the two alike when    *)
(* they are asked about the same instant.  built holds the two wall-clock  *)
(* readings.                                                               *)
(***************************************************************************)
\* The attributes of a calculator built when the wall clock reads now, its
\* history list and the outcomes of its calls
Constructed(now) ==
    [self |-> [_time_length |-> 0, _start_time |-> now, _alt_mount |-> 70,
               _az_mount |-> 0, _az_dome |-> 0, _current_filter |-> <<>>,
               _rmode |-> 0],
     list |-> <<>>,
     returned |-> <<>>]

InitPair ==
    /\ raw_data = <<>>
    /\ night_verif = <<>>
    /\ clean_data = [c \in Commands |-> <<>>]
    /\ pc = "idle"
    /\ parsed_data = <<>>
    /\ found_nights = <<>>
    /\ full_nights_id = <<>>
    /\ commands_data = <<>>
    /\ n_written = 0
    /\ fresh = FALSE
    /\ rerun = FALSE
    /\ kills = 0
    /\ \E params \in AvailableParams, flag \in BOOLEAN : __init__(params, flag)
    /\ call = None
    /\ ct = None
    /\ train = None
    /\ \E later \in {0, 120} :
         pair = [a |-> Constructed(0), b |-> Constructed(later),
                 built |-> <<0, later>>, configured |-> FALSE]

\* Variant: the start time given is not taken
set_start_time_ignored(self, utc_time_stamp) == self

\* CycleTimeCalc.set_start_time
set_start_time(self, utc_time_stamp) ==
    [self EXCEPT !._start_time = utc_time_stamp]

\* set_start_time on both calculators, with the same time
PairSetStartTime ==
    /\ ~pair.configured
    /\ \E utc_time_stamp \in {0, 60} :
         pair' = [pair EXCEPT
                    !.a.self = set_start_time(@, utc_time_stamp),
                    !.b.self = set_start_time(@, utc_time_stamp),
                    !.configured = TRUE]
    /\ UNCHANGED <<cleanvars, calcvars, call, ct, train>>

\* A calculator after calc_time(command)
FedWith(c, o) ==
    [self |-> o.self,
     list |-> IF o.appended THEN Append(c.list, o.ret) ELSE c.list,
     returned |-> Append(c.returned, [exc |-> o.exc, ret |-> o.ret])]

Fed(c, command, sky, eph) ==
    FedWith(c, calc_time(c.self, command, sky, eph))

\* The simulated instant of a calculator
Instant(c) == c.self._start_time + c.self._time_length

\* calc_time on both calculators, with the same command
PairCalcTime ==
    /\ pair.configured
    /\ Len(pair.a.returned) < MaxCalls
    /\ \E command \in Arguments :
       \E sky_a \in Skies(command), eph_a \in Ephemerides(command) :
       \E sky_b \in Skies(command), eph_b \in Ephemerides(command) :
          /\ Instant(pair.a) = Instant(pair.b)
             => (sky_b = sky_a /\ eph_b = eph_a)
          /\ pair' = [pair EXCEPT !.a = Fed(@, command, sky_a, eph_a),
                                  !.b = Fed(@, command, sky_b, eph_b)]
    /\ UNCHANGED <<cleanvars, calcvars, call, ct, train>>

NextPair == PairSetStartTime \/ PairCalcTime

SpecPair == InitPair /\ [][NextPair]_vars

(***************************************************************************)
(* Single calls of the feature functions of AbstractCycleTime.  A call is  *)
(* the mapping of its arguments; the outcome of the function is added to   *)
(* it under out.  A seq text is given by the field lists of its            *)
(* sub-exposures and the repeat count before "x(", if it has one.          *)
(***************************************************************************)
\* Degrees of the full turn, line 196; the azimuths of the calls are the
\* fifth degrees of the full turn
FullTurn == 360
Azimuths == {a \in 0..(FullTurn - 1) : a % 5 = 0}

\* sep.join(pieces)
RECURSIVE Join(_, _)
Join(pieces, sep) ==
    IF Len(pieces) = 1 THEN pieces[1]
    ELSE pieces[1] \o <<sep>> \o Join(Tail(pieces), sep)

\* Fields of sub-exposures: counts, filters and exposures, of which "q" is
\* no number and "x" is a filter name
CountTexts == {<<"3">>, <<"q">>}
FilterTexts == {<<"R", "e", "d">>, <<"B">>, <<"x">>}
ExposureTexts == {<<"4">>, <<"a">>, <<"q">>}

\* Sub-exposures with three fields, with two, with one and with none
Triples ==
    {<<c, f, e>> : c \in CountTexts, f \in FilterTexts, e \in ExposureTexts}
    \cup {<<c, <<"B">>>> : c \in CountTexts}
    \cup {<<<<"3">>>>, <<<<>>>>}

\* "3/Red/4" and "1/A/1,1/B/1,1/B/1,1/C/1", by their fields
ExampleRepeated == <<<<<<"3">>, <<"R", "e", "d">>, <<"4">>>>>>
ExampleFilters ==
    <<<<<<"1">>, <<"A">>, <<"1">>>>, <<<<"1">>, <<"B">>, <<"1">>>>,
      <<<<"1">>, <<"B">>, <<"1">>>>, <<<<"1">>, <<"C">>, <<"1">>>>>>

TripleLists ==
    UNION {[1..n -> Triples] : n \in 1..MaxTriples}
    \cup {ExampleRepeated, ExampleFilters}

\* The text before "x(": no digit, or the count 2
RepeatTexts == {<<>>, <<"2">>}

\* The seq text of a call
ListText(triples) ==
    Join([k \in 1..Len(triples) |-> Join(triples[k], "/")], ",")
SeqText(c) ==
    IF c.repeat = None THEN ListText(c.triples)
    ELSE c.repeat[1] \o <<"x", "(">> \o ListText(c.triples) \o <<")">>

SeqRecord(c) == [kwargs |-> [seq |-> SeqText(c)]]

\* Readout-mode tables a caller may give: none, one with a default row, one
\* without
RmModeTables ==
    {None,
     [dev |-> <<5, 0, 2>>, default |-> <<4, 4, 4, 4>>],
     [dev |-> <<5, 0, 2>>]}
Telescopes == {"dev", "sim", "nowhere"}

SeqCalls(op) ==
    {[op |-> op, triples |-> t, repeat |-> r] :
       t \in TripleLists, r \in {None} \cup {Some(x) : x \in RepeatTexts}}

Calls ==
    {[op |-> "_az_distance", start |-> a, end |-> b] :
       a \in Azimuths, b \in Azimuths}
    \cup SeqCalls("solve_multiple_seq")
    \cup SeqCalls("_exposure_number")
    \cup SeqCalls("_exposure_time_sum")
    \cup {[filter_pos |-> f] @@ c :
            f \in {<<"A">>, <<"B">>, IntZero}, c \in SeqCalls("_filter_changes")}
    \cup {[op |-> "_rm_mode_inverse_mhz", rm_mode |-> i, telescope |-> t,
           rm_modes |-> m] :
            i \in (-MaxIndex)..MaxIndex, t \in Telescopes, m \in RmModeTables}

Pending(op) == call.op = op /\ ~Has(call, "out")
Called(op) == call # None /\ call.op = op /\ Has(call, "out")

InitFeatures ==
    /\ raw_data = <<>>
    /\ night_verif = <<>>
    /\ clean_data = [c \in Commands |-> <<>>]
    /\ pc = "idle"
    /\ parsed_data = <<>>
    /\ found_nights = <<>>
    /\ full_nights_id = <<>>
    /\ commands_data = <<>>
    /\ n_written = 0
    /\ fresh = FALSE
    /\ rerun = FALSE
    /\ kills = 0
    /\ __init__([dev |-> [OBJECT |-> ExampleParams]], FALSE)
    /\ call \in Calls
    /\ pair = None
    /\ ct = None
    /\ train = None

AzDistance ==
    /\ Pending("_az_distance")
    /\ call' = [out |-> Gives(_az_distance(call.start, call.end))] @@ call
    /\ UNCHANGED <<cleanvars, calcvars, pair, ct, train>>

SolveMultipleSeq ==
    /\ Pending("solve_multiple_seq")
    /\ call' = [out |-> solve_multiple_seq(SeqText(call))] @@ call
    /\ UNCHANGED <<cleanvars, calcvars, pair, ct, train>>

ExposureNumber ==
    /\ Pending("_exposure_number")
    /\ call' = [out |-> _exposure_number(SeqRecord(call))] @@ call
    /\ UNCHANGED <<cleanvars, calcvars, pair, ct, train>>

ExposureTimeSum ==
    /\ Pending("_exposure_time_sum")
    /\ call' = [out |-> _exposure_time_sum(SeqRecord(call))] @@ call
    /\ UNCHANGED <<cleanvars, calcvars, pair, ct, train>>

FilterChanges ==
    /\ Pending("_filter_changes")
    /\ call' = [out |-> _filter_changes([filter_pos |-> call.filter_pos]
                                        @@ SeqRecord(call))] @@ call
    /\ UNCHANGED <<cleanvars, calcvars, pair, ct, train>>

RmModeInverseMhz ==
    /\ Pending("_rm_mode_inverse_mhz")
    /\ call' = [out |-> _rm_mode_inverse_mhz(call.rm_mode, call.telescope,
                                             call.rm_modes)] @@ call
    /\ UNCHANGED <<cleanvars, calcvars, pair, ct, train>>

NextFeatures ==
    \/ AzDistance
    \/ SolveMultipleSeq
    \/ ExposureNumber
    \/ ExposureTimeSum
    \/ FilterChanges
    \/ RmModeInverseMhz

SpecFeatures == InitFeatures /\ [][NextFeatures]_vars

(***************************************************************************)
(* CTData of src/ctc/ctdata.py and the coroutines that call it.  A         *)
(* coroutine is at "start" before async with self._lock, "locked" in the   *)
(* block, "merged" between the read and the assignment of                  *)
(* self._data = self._data | dict, "leaving" after the block's last        *)
(* statement, and "done" after the lock is released.  The coroutines may   *)
(* be switched between any two of these steps.  entered lists the          *)
(* coroutines in the order they took the lock.                             *)
(***************************************************************************)
\* The calls of the coroutines: str(value) of insert_single_data is
\* Str(value), a value given in a dict is stored as it is
CTCalls ==
    {[op |-> "insert_single_data", name |-> "night_id", value |-> 1],
     [op |-> "insert_single_data", name |-> "night_id", value |-> 2],
     [op |-> "insert_data_from_dict",
      dict |-> [night_id |-> Num(3), command_name |-> Num(3)]],
     [op |-> "get_data"]}

Coroutines == 1..MaxTasks

CTData__init__ == [_data |-> <<>>, _lock |-> None, entered |-> <<>>]

InitCT ==
    /\ raw_data = <<>>
    /\ night_verif = <<>>
    /\ clean_data = [c \in Commands |-> <<>>]
    /\ pc = "idle"
    /\ parsed_data = <<>>
    /\ found_nights = <<>>
    /\ full_nights_id = <<>>
    /\ commands_data = <<>>
    /\ n_written = 0
    /\ fresh = FALSE
    /\ rerun = FALSE
    /\ kills = 0
    /\ __init__([dev |-> [OBJECT |-> ExampleParams]], FALSE)
    /\ call = None
    /\ pair = None
    /\ train = None
    /\ \E calls \in [Coroutines -> CTCalls] :
         ct = CTData__init__
              @@ [tasks |-> [t \in Coroutines |->
                               [call |-> calls[t], pc |-> "start",
                                tmp |-> None, ret |-> None]]]

\* Variant: the lock is taken whether it is held or not
LockTakenAnyway(lock) == TRUE

\* asyncio.Lock.acquire goes on when the lock is not held
LockFree(lock) == lock = None

\* async with self._lock, entering
Acquire(t) ==
    /\ ct.tasks[t].pc = "start"
    /\ LockFree(ct._lock)
    /\ ct' = [ct EXCEPT !._lock = Some(t),
                        !.entered = Append(@, t),
                        !.tasks[t].pc = "locked"]

\* line 22: self._data[name] = str(value)
InsertSingleData(t) ==
    /\ ct.tasks[t].pc = "locked"
    /\ ct.tasks[t].call.op = "insert_single_data"
    /\ ct' = [ct EXCEPT
                !._data = (ct.tasks[t].call.name
                             :> Str(ct.tasks[t].call.value)) @@ @,
                !.tasks[t].pc = "leaving"]

\* line 26, the right-hand side: self._data | dict
MergeRead(t) ==
    /\ ct.tasks[t].pc = "locked"
    /\ ct.tasks[t].call.op = "insert_data_from_dict"
    /\ ct' = [ct EXCEPT !.tasks[t].tmp = ct.tasks[t].call.dict @@ ct._data,
                        !.tasks[t].pc = "merged"]

\* line 26, the assignment
MergeWrite(t) ==
    /\ ct.tasks[t].pc = "merged"
    /\ ct' = [ct EXCEPT !._data = ct.tasks[t].tmp,
                        !.tasks[t].pc = "leaving"]

\* line 30: return self._data
GetData(t) ==
    /\ ct.tasks[t].pc = "locked"
    /\ ct.tasks[t].call.op = "get_data"
    /\ ct' = [ct EXCEPT !.tasks[t].ret = Some(ct._data),
                        !.tasks[t].pc = "leaving"]

\* async with self._lock, leaving
Release(t) ==
    /\ ct.tasks[t].pc = "leaving"
    /\ ct' = [ct EXCEPT !._lock = None, !.tasks[t].pc = "done"]

NextCT ==
    /\ \E t \in Coroutines :
         \/ Acquire(t)
         \/ InsertSingleData(t)
         \/ MergeRead(t)
         \/ MergeWrite(t)
         \/ GetData(t)
         \/ Release(t)
    /\ UNCHANGED <<cleanvars, calcvars, call, pair, train>>

SpecCT == InitCT /\ [][NextCT]_vars

(***************************************************************************)
(* Vocabulary of the properties.                                           *)
(***************************************************************************)
Range(s) == {s[k] : k \in 1..Len(s)}
NoDuplicates(s) == \A i, j \in 1..Len(s) : i # j => s[i] # s[j]
InPass == pc \in {"saving", "done", "raised", "killed"}

\* The feature records of commands_data, each with the command it is filed under
Features(cd) ==
    UNION {{<<cd[k][1], f>> : f \in Range(cd[k][2])} : k \in 1..Len(cd)}
\* The feature records held by the clean-data files
Filed ==
    UNION {{<<c, _decode_data(l)>> : l \in Range(clean_data[c])} : c \in Commands}

\* The clock stamps record number i (0-based) of the log with i + 1, so the
\* start stamp of a feature record tells the record it was built from
StartIndex(f) == f.start_utc_date_stamp - 1
RawRecord(i) == _decode_data(raw_data[i + 1])

\* The appends of the pass in progress that are done, and those of them
\* that went to the ledger
Done == SubSeq(Appends, 1, n_written)
LedgerDone == SelectSeq(Done, LAMBDA a : a.file = "night_verif")
\* The ledger as the pass in progress read it
LedgerRead ==
    IF pc = "raised" THEN night_verif
    ELSE SubSeq(night_verif, 1, Len(night_verif) - Len(LedgerDone))
\* The ledger line of a night
LedgerLine(n) ==
    _encode_data([random_id |-> n[1], utc_time_stamp |-> n[2].utc_time_stamp])
\* A line of the ledger names the night: same random_id, same utc_time_stamp
Names(line, n) ==
    /\ _decode_data(line)["random_id"] = n[1]
    /\ _decode_data(line)["utc_time_stamp"] = n[2].utc_time_stamp

\* A NIGHTPLAN start record of random_id r; a NIGHTPLAN record of r carrying
\* done or skipped
IsStartOf(record, r) ==
    /\ Has(record, "command_name") /\ IsNightplan(record) /\ ~Marked(record)
    /\ Has(record, "random_id") /\ record["random_id"] = r
IsEndOf(record, r) ==
    /\ Has(record, "command_name") /\ IsNightplan(record) /\ Marked(record)
    /\ Has(record, "random_id") /\ record["random_id"] = r

(***************************************************************************)
(* C1: a pass run right after a finished pass on an unchanged raw log      *)
(* appends nothing, neither to a clean-data file nor to the ledger.        *)
(***************************************************************************)
C1_SecondRunAppendsNothing ==
    rerun => /\ pc \in {"done", "raised"}
             /\ n_written = 0

\* the second run met nights the first one had converted
C1_Witness ==
    /\ rerun
    /\ pc = "done"
    /\ found_nights # <<>>
    /\ Filed # {}
    /\ night_verif # <<>>

(***************************************************************************)
(* C2: as long as no pass is interrupted, no feature record is held twice  *)
(* by a clean-data file and no night (random_id, utc_time_stamp) is        *)
(* entered twice in the ledger, however passes and appends to the raw log  *)
(* interleave.                                                             *)
(***************************************************************************)
C2_NoDoubleCounting ==
    kills = 0 => /\ \A c \in Commands : NoDuplicates(clean_data[c])
                 /\ NoDuplicates(night_verif)

\* a pass on a grown log meets a night converted by an earlier pass
C2_Witness ==
    /\ kills = 0
    /\ pc = "done"
    /\ ~rerun
    /\ Filed # {}
    /\ \E k \in 1..Len(found_nights) :
          /\ found_nights[k][1] \notin Keys(full_nights_id)
          /\ found_nights[k][2].started # None

(***************************************************************************)
(* C3: the nights a pass goes on to process are the nights found in the    *)
(* raw log that no line of the ledger names with the same random_id and    *)
(* the same utc_time_stamp; feature records and ledger appends of the pass *)
(* are for these nights only.                                              *)
(***************************************************************************)
C3_ProcessedIffNotInLedger ==
    InPass =>
      /\ \A k \in 1..Len(found_nights) :
            LET n == found_nights[k] IN
            (n \in Range(full_nights_id))
               <=> ~ \E line \in Range(LedgerRead) : Names(line, n)
      /\ Range(full_nights_id) \subseteq Range(found_nights)
      /\ \A cf \in Features(commands_data) :
            cf[2].night_id \in Keys(full_nights_id)
      /\ \A a \in Range(LedgerDone) :
            \E n \in Range(full_nights_id) : Names(a.data, n)

\* a night is processed although the ledger holds its random_id, with
\* another utc_time_stamp
C3_Witness ==
    /\ pc = "done"
    /\ \E n \in Range(full_nights_id) :
          /\ \E line \in Range(LedgerRead) :
                /\ _decode_data(line)["random_id"] = n[1]
                /\ _decode_data(line)["utc_time_stamp"] # n[2].utc_time_stamp
          /\ LedgerLine(n) \in Range(night_verif)

(***************************************************************************)
(* C4: every random_id with a NIGHTPLAN start record followed later by a   *)
(* NIGHTPLAN record of the same random_id carrying done or skipped is in   *)
(* the result of _find_nights_id, its span running from a start record of  *)
(* that random_id to such an end record.                                   *)
(***************************************************************************)
C4_CompleteNightsFound ==
    InPass =>
      \A r \in RandomIds :
        (\E i, j \in 1..Len(parsed_data) :
            i < j /\ IsStartOf(parsed_data[i], r) /\ IsEndOf(parsed_data[j], r))
        => /\ r \in Keys(found_nights)
           /\ LET m == Get(found_nights, r) IN
              /\ m.started # None
              /\ IsStartOf(parsed_data[m.started[1] + 1], r)
              /\ IsEndOf(parsed_data[m.ended + 1], r)

(***************************************************************************)
(* C5: every span returned by _find_nights_id has integer started and      *)
(* ended with started < ended.                                             *)
(***************************************************************************)
C5_StartedBeforeEnded ==
    \A n \in Range(found_nights) :
        /\ n[2].started # None
        /\ n[2].started[1] < n[2].ended

(***************************************************************************)
(* C6: a record of a night span that lacks expected keys does not make     *)
(* data_clean raise.                                                       *)
(***************************************************************************)
C6_BadRecordDoesNotRaise == pc # "raised"

C8_OneLedgerEntryPerNewNight ==
    pc \in {"done", "raised"} =>
      \A n \in Range(full_nights_id) :
         Cardinality({k \in 1..Len(night_verif) :
                        /\ k > Len(LedgerRead)
                        /\ Names(night_verif[k], n)}) = 1

C10_StartStrictlyInsideSpan ==
    \A cf \in Features(commands_data) :
       LET m == Get(full_nights_id, cf[2].night_id)
           i == StartIndex(cf[2])
       IN  /\ m.started # None
           /\ m.started[1] < i
           /\ i < m.ended
           /\ parsed_data[i + 1]["command_name"] \notin _NO_TRAIN_COMMANDS
           /\ ~Has(parsed_data[i + 1], "done")

(***************************************************************************)
(* C11: a command start record of a span whose record two positions later  *)
(* is the span's terminating NIGHTPLAN record (done or skipped), and whose *)
(* next record has skipped "False", yields a feature record whose          *)
(* cycle_time is the terminating stamp minus the start stamp.              *)
(***************************************************************************)
C11_LastCommandOfSpanConverted ==
    pc \in {"saving", "done"} =>
      \A n \in Range(full_nights_id) :
         LET m == n[2]
             i == m.ended - 2
         IN  (/\ m.started # None
              /\ m.started[1] < i
              /\ IsEndOf(parsed_data[m.ended + 1], n[1])
              /\ ThirdKeys(parsed_data[m.ended + 1])
                    \subseteq DOMAIN parsed_data[m.ended + 1]
              /\ parsed_data[i + 1] = [utc_date_stamp |-> i + 1,
                                       utc_time_stamp |-> i + 1]
                                      @@ Executed("OBJECT")
              /\ Has(parsed_data[i + 2], "skipped")
              /\ parsed_data[i + 2]["skipped"] = "False")
             => \E cf \in Features(commands_data) :
                   /\ cf[2].night_id = n[1]
                   /\ StartIndex(cf[2]) = i
                   /\ cf[2].cycle_time =
                         parsed_data[m.ended + 1]["utc_time_stamp"]
                           - parsed_data[i + 1]["utc_time_stamp"]

CalcStep == last'.op = "calc_time"
\* The call works on a mapping with a command name
Named == /\ CommandOf(last'.command) # None
         /\ Has(CommandOf(last'.command)[1], "command_name")
Command == CommandOf(last'.command)[1]
Kwargs == IF Has(Command, "kwargs") THEN Command["kwargs"] ELSE <<>>
\* The command has trained parameters on the telescope
Trained == Command["command_name"] \in _avialable_param_telesc_commands
\* The name the model of the command is looked up under
ModelName ==
    IF Command["command_name"] \in USE_OBJECT_PARAMS_IN THEN "OBJECT"
    ELSE Command["command_name"]
SixCoefficients(param) ==
    \A k \in 1..Len(_X_COLUMNS) : Has(param["coef"], _X_COLUMNS[k])
\* The target of the command, if it has one: <<[az, alt]>> or None
Target ==
    IF Has(Command, "args") THEN Some(last'.sky)
    ELSE IF Has(Kwargs, "alt") /\ Has(Kwargs, "az")
         THEN Some([az |-> Float(Kwargs["az"]), alt |-> Float(Kwargs["alt"])])
    ELSE None
\* The command is skipped for the altitude of its target
Skipped ==
    /\ Target # None
    /\ ~tpg
    /\ _skipping
    /\ Target[1].alt < _alt_limit
\* The six features of the command, from the attributes before the call
DomeDistance ==
    IF tpg THEN AverageDist(Command, "dome_average_dist")
    ELSE IF Target = None THEN 0
    ELSE _az_distance(_az_dome, Target[1].az)
MountDistance ==
    IF tpg THEN AverageDist(Command, "mount_average_dist")
    ELSE IF Target = None THEN 0
    ELSE _alt_az_distance(_alt_mount, Target[1].alt, _az_mount, Target[1].az)
Positioned == [filter_pos |-> _current_filter] @@ Command
\* The readout mode the command asks for is looked up and each of the six
\* features of the command has a value
ReadoutMode == forced_readout_mode(Self, Command)
FeaturesDefined ==
    /\ _exposure_number(Command).exc = ""
    /\ _exposure_time_sum(Command).exc = ""
    /\ _filter_changes(Positioned).exc = ""
    /\ ReadoutMode.exc = ""
    /\ _rm_mode_inverse_mhz(ReadoutMode._rmode, telescope,
                            _set_rm_modes).exc = ""
\* The value of the linear model of param for the command
ModelValue(param) ==
    DomeDistance * param["coef"]["dome_distance"]
    + MountDistance * param["coef"]["mount_distance"]
    + _exposure_time_sum(Command).ret * param["coef"]["exposure_time_sum"]
    + _filter_changes(Positioned).ret * param["coef"]["filter_changes"]
    + Times(_rm_mode_inverse_mhz(ReadoutMode._rmode, telescope,
                                 _set_rm_modes).ret,
            _exposure_number(Command).ret) * param["coef"]["rmmode_expno"]
    + _dither_on(Command) * _exposure_number(Command).ret
        * param["coef"]["dither_expno"]
    + param["intercept"]

(***************************************************************************)
(* C13: for a command whose trained parameter set holds a coefficient for  *)
(* each of the six features, calc_time returns the sum of feature times    *)
(* coefficient plus the intercept whenever that value is not negative, and *)
(* adds it to the running total; with the coefficient 1 for                *)
(* exposure_time_sum, 0 for the others, the intercept 5 and an exposure    *)
(* time sum of 10 it returns 15.  (The command is one the model is         *)
(* evaluated for: it is not skipped for its altitude and each of its six   *)
(* features has a value.)                                                  *)
(***************************************************************************)
C13_LinearModelReturned ==
    [][(/\ CalcStep
        /\ Named
        /\ Trained
        /\ Has(available_param[telescope], ModelName)
        /\ SixCoefficients(available_param[telescope][ModelName])
        /\ ~Skipped
        /\ FeaturesDefined
        /\ ModelValue(available_param[telescope][ModelName]) >= 0)
       => /\ last'.exc = ""
          /\ last'.ret = ModelValue(available_param[telescope][ModelName])
          /\ _time_length' = _time_length + last'.ret
          /\ (/\ available_param[telescope][ModelName] = ExampleParams
              /\ _exposure_time_sum(Command).ret = 10)
             => last'.ret = 15]_vars

\* the example of the claim, after an earlier command
C13_Witness ==
    /\ last.op = "calc_time"
    /\ available_param = [dev |-> [OBJECT |-> ExampleParams]]
    /\ last.command =
         [dict |-> [command_name |-> "OBJECT",
                    kwargs |-> [seq |-> OneExposure]]]
    /\ last.exc = ""
    /\ last.ret = 15
    /\ _time_length = 30
    /\ _time_length_list = <<15, 15>>

(***************************************************************************)
(* C14: when the value of the linear model of a trained command is         *)
(* negative, or when the parameter set lacks the coefficient of one of the *)
(* six features, calc_time returns 0.0 and leaves the running total as it  *)
(* was; it does not raise.  (Each of the six features of the command has   *)
(* a value.)                                                               *)
(***************************************************************************)
C14_NegativeOrUndefinedIsZero ==
    [][(/\ CalcStep
        /\ Named
        /\ Trained
        /\ Has(available_param[telescope], ModelName)
        /\ FeaturesDefined
        /\ \/ ~SixCoefficients(available_param[telescope][ModelName])
           \/ ModelValue(available_param[telescope][ModelName]) < 0)
       => /\ last'.exc = ""
          /\ last'.ret = 0
          /\ _time_length' = _time_length]_vars

\* a command whose model value is 10 - 20, after a wait of 30 seconds
C14_Witness ==
    /\ last.op = "calc_time"
    /\ available_param = [dev |-> [OBJECT |-> NegativeParams]]
    /\ last.command =
         [dict |-> [command_name |-> "OBJECT",
                    kwargs |-> [seq |-> OneExposure]]]
    /\ last.exc = ""
    /\ last.ret = 0
    /\ _time_length = 30
    /\ _time_length_list = <<30, 0>>

(***************************************************************************)
(* C15: after any sequence of calc_time calls that returned, given texts   *)
(* or mappings, time_list holds exactly one entry per call, each entry the *)
(* value the call returned, and time_lenght_sec is the sum of the entries, *)
(* whichever branch each call took.                                        *)
(***************************************************************************)
C15_OneEntryPerCall ==
    (\A k \in 1..Len(returned) : returned[k].exc = "")
    => /\ Len(_time_length_list) = Len(returned)
       /\ \A k \in 1..Len(returned) : _time_length_list[k] = returned[k].ret
       /\ _time_length = Sum(_time_length_list)

(***************************************************************************)
(* C16: reset_time sets the accumulated total to 0, empties the history    *)
(* list and sets the session start instant to the current time; it leaves  *)
(* the simulated mount altitude and azimuth, the dome azimuth, the tracked *)
(* filter and the readout-mode index as they were.                         *)
(***************************************************************************)
C16_ResetKeepsSimulatedState ==
    [][last'.op = "reset_time"
       => /\ _time_length' = 0
          /\ _time_length_list' = <<>>
          /\ _start_time' = utcnow'
          /\ UNCHANGED <<_alt_mount, _az_mount, _az_dome, _current_filter,
                         _rmode>>]_vars

\* a reset two minutes after construction, with the mount on the horizon at
\* azimuth 90 and the filter V in place
C16_Witness ==
    /\ last.op = "reset_time"
    /\ _start_time = 120
    /\ _time_length = 0
    /\ _time_length_list = <<>>
    /\ _alt_mount = 0
    /\ _az_mount = 90
    /\ _az_dome = 90
    /\ _current_filter = <<"V">>
    /\ available_param = [dev |-> [OBJECT |-> GeometryParams]]

(***************************************************************************)
(* C17: when skipping is enabled and the target altitude of a trained      *)
(* command is below the altitude limit, calc_time returns exactly 0.0,     *)
(* adds nothing to the running total and leaves the simulated mount        *)
(* altitude and azimuth and the dome azimuth unchanged; with the altitude  *)
(* at or above the limit, or skipping disabled, the simulated position     *)
(* becomes the target.                                                     *)
(***************************************************************************)
C17_SkippedBelowLimitCostsNothing ==
    [][(CalcStep /\ Named /\ Trained /\ Target # None)
       => IF _skipping /\ Target[1].alt < _alt_limit
          THEN /\ last'.exc = ""
               /\ last'.ret = 0
               /\ _time_length' = _time_length
               /\ UNCHANGED <<_alt_mount, _az_mount, _az_dome>>
          ELSE /\ _alt_mount' = Target[1].alt
               /\ _az_mount' = Target[1].az
               /\ _az_dome' = Target[1].az]_vars

(***************************************************************************)
(* C17, amended: outside target-position-unknown mode, a trained command   *)
(* whose target altitude is below the limit while skipping is enabled      *)
(* returns 0.0, adds nothing to the running total and leaves the simulated *)
(* position unchanged, and otherwise the simulated position becomes the    *)
(* target; in target-position-unknown mode the simulated position is never *)
(* changed.                                                                *)
(***************************************************************************)
C17_OutsideTpgSkippedCostsNothing ==
    [][(CalcStep /\ Named /\ Trained /\ Target # None)
       => IF tpg
          THEN UNCHANGED <<_alt_mount, _az_mount, _az_dome>>
          ELSE IF _skipping /\ Target[1].alt < _alt_limit
          THEN /\ last'.exc = ""
               /\ last'.ret = 0
               /\ _time_length' = _time_length
               /\ UNCHANGED <<_alt_mount, _az_mount, _az_dome>>
          ELSE /\ _alt_mount' = Target[1].alt
               /\ _az_mount' = Target[1].az
               /\ _az_dome' = Target[1].az]_vars

\* a command for the horizon at azimuth 90 is skipped after one of 15
\* seconds; the telescope is where the constructor put it
C17_Witness ==
    /\ last.op = "calc_time"
    /\ ~tpg
    /\ _skipping
    /\ last.command =
         [dict |-> [command_name |-> "OBJECT",
                    kwargs |-> [az |-> Num(90), alt |-> Num(0),
                                seq |-> OneExposure]]]
    /\ last.exc = ""
    /\ last.ret = 0
    /\ _time_length_list = <<15, 0>>
    /\ _time_length = 15
    /\ _alt_mount = 70
    /\ _az_mount = 0
    /\ _az_dome = 0

(***************************************************************************)
(* C18: for a command named DARK, ZERO or SNAP on a telescope that has     *)
(* trained parameters for OBJECT, calc_time returns the linear prediction  *)
(* computed with the coefficients and the intercept of OBJECT, whether or  *)
(* not a parameter set is stored under the name of the command itself.     *)
(***************************************************************************)
C18_AliasEvaluatesObjectModel ==
    [][(/\ CalcStep
        /\ Named
        /\ Command["command_name"] \in USE_OBJECT_PARAMS_IN
        /\ Has(available_param, telescope)
        /\ Has(available_param[telescope], "OBJECT")
        /\ SixCoefficients(available_param[telescope]["OBJECT"])
        /\ ~Skipped
        /\ ModelValue(available_param[telescope]["OBJECT"]) >= 0)
       => /\ last'.exc = ""
          /\ last'.ret = ModelValue(available_param[telescope]["OBJECT"])]_vars

(***************************************************************************)
(* C19: calc_time on a WAIT command whose kwargs hold sec = N, a number or *)
(* a numeric text such as "30", returns N, increases the running total by  *)
(* N and changes no simulated position, filter or readout state.           *)
(***************************************************************************)
C19_WaitSecondsReturned ==
    [][(/\ CalcStep
        /\ Named
        /\ Command["command_name"] = "WAIT"
        /\ Has(Kwargs, "sec"))
       => /\ last'.exc = ""
          /\ Kwargs["sec"] \in {Num(30), Str(30)} => last'.ret = 30
          /\ \A n \in 0..60 : Kwargs["sec"] \in {Num(n), Str(n)}
                                => last'.ret = n
          /\ _time_length' = _time_length + last'.ret
          /\ _time_length_list' = Append(_time_length_list, last'.ret)
          /\ UNCHANGED <<_alt_mount, _az_mount, _az_dome, _current_filter,
                         _rmode, _start_time>>]_vars

\* a wait of "30" seconds after a command of 15 seconds that moved the
\* mount and put the filter V in place
C19_Witness ==
    /\ last.op = "calc_time"
    /\ last.command = [dict |-> [command_name |-> "WAIT",
                                 kwargs |-> [sec |-> Str(30)]]]
    /\ last.exc = ""
    /\ last.ret = 30
    /\ _time_length_list = <<15, 30>>
    /\ _time_length = 45
    /\ _alt_mount = 45
    /\ _current_filter = <<"V">>

\* Seconds from midnight to the time of day ut, given as HH:MM or HH:MM:SS
TimeOfDay(ut) ==
    ut[1] * 3600 + ut[2] * 60 + (IF Len(ut) = 3 THEN ut[3] ELSE 0)
\* Seconds from the instant now to the next time of day ut at or after it
UntilNext(now, ut) ==
    LET today == (now \div SecondsPerDay) * SecondsPerDay + TimeOfDay(ut)
    IN  IF today >= now THEN today - now ELSE today + SecondsPerDay - now

(***************************************************************************)
(* C20: for a WAIT command with the kwarg ut given as HH:MM or as          *)
(* HH:MM:SS, calc_time returns the seconds from the current simulated      *)
(* instant (start time plus accumulated total) to the next occurrence of   *)
(* that time of day at or after it, on the same day when the time has not  *)
(* passed yet and on the following day otherwise, and adds it to the       *)
(* total; the result is at least 0 and less than 24 hours.                 *)
(***************************************************************************)
C20_WaitUntilTimeOfDay ==
    [][(/\ CalcStep
        /\ Named
        /\ Command["command_name"] = "WAIT"
        /\ ~Has(Kwargs, "sec")
        /\ Has(Kwargs, "ut"))
       => /\ last'.exc = ""
          /\ last'.ret = UntilNext(_start_time + _time_length, Kwargs["ut"])
          /\ last'.ret >= 0
          /\ last'.ret < SecondsPerDay
          /\ _time_length' = _time_length + last'.ret]_vars

(***************************************************************************)
(* C21: for any command given as a mapping, whatever its contents          *)
(* (malformed seq triples, a read_mod parameter with or without a          *)
(* configured readout table, non-numeric wait values, alt given without    *)
(* az), calc_time does not raise: a failing command contributes 0.0 and    *)
(* the following commands of the sequence can still be computed.           *)
(***************************************************************************)
C21_MappingNeverRaises ==
    (last.op = "calc_time" /\ Has(last.command, "dict"))
    => /\ last.exc = ""
       /\ last.ret >= 0

(***************************************************************************)
(* C22: calc_time called with an argument that is neither text nor a       *)
(* mapping raises TypeError, and the accumulated total, the history list   *)
(* and all simulated telescope state are the same after the raise as       *)
(* before the call.                                                        *)
(***************************************************************************)
C22_OtherArgumentRaisesTypeError ==
    [][(CalcStep /\ Has(last'.command, "other"))
       => /\ last'.exc = "TypeError"
          /\ UNCHANGED <<_time_length, _time_length_list, _start_time,
                         _alt_mount, _az_mount, _az_dome, _current_filter,
                         _rmode>>]_vars

\* the argument is rejected after a command that moved the mount, took 15
\* seconds and left the filter V
C22_Witness ==
    /\ last.op = "calc_time"
    /\ Has(last.command, "other")
    /\ last.exc = "TypeError"
    /\ _time_length = 15
    /\ _time_length_list = <<15>>
    /\ _alt_mount = 45
    /\ _current_filter = <<"V">>

(***************************************************************************)
(* Vocabulary of the CTData properties.                                    *)
(***************************************************************************)
\* What an insert puts into the mapping
Inserted(c) ==
    IF c.op = "insert_single_data" THEN c.name :> Str(c.value)
    ELSE IF c.op = "insert_data_from_dict" THEN c.dict
    ELSE <<>>
\* The mapping after the first n coroutines to take the lock: each key has
\* the value of the last of them that inserted it
RECURSIVE AfterEntries(_)
AfterEntries(n) ==
    IF n = 0 THEN <<>>
    ELSE Inserted(ct.tasks[ct.entered[n]].call) @@ AfterEntries(n - 1)
\* The place of coroutine t in the order of taking the lock
Entry(t) == CHOOSE n \in 1..Len(ct.entered) : ct.entered[n] = t
AllDone == \A t \in Coroutines : ct.tasks[t].pc = "done"

(***************************************************************************)
(* C29: for any interleaving of concurrent insert_single_data,             *)
(* insert_data_from_dict and get_data calls on one CTData object, no       *)
(* insert is lost: after all calls complete the mapping holds, for every   *)
(* inserted key, the value of the last insert of that key to enter the     *)
(* lock, and a read never observes a partially applied insert.             *)
(***************************************************************************)
C29_NoInsertLost ==
    ct # None
    => /\ AllDone => ct._data = AfterEntries(Len(ct.entered))
       /\ \A t \in Coroutines :
            ct.tasks[t].ret # None
            => ct.tasks[t].ret[1] = AfterEntries(Entry(t) - 1)

\* a dict insert, then a single insert of one of its keys, then a read
C29_Witness ==
    /\ ct # None
    /\ AllDone
    /\ Len(ct.entered) = MaxTasks
    /\ ct.tasks[ct.entered[1]].call.op = "insert_data_from_dict"
    /\ ct.tasks[ct.entered[2]].call.op = "insert_single_data"
    /\ ct.tasks[ct.entered[3]].call.op = "get_data"
    /\ ct.tasks[ct.entered[3]].ret
         = Some([night_id |-> Str(ct.tasks[ct.entered[2]].call.value),
                 command_name |-> Num(3)])

(***************************************************************************)
(* C30: calc_time on the WAIT example of the CycleTimeCalc class           *)
(* documentation, {'command_name': 'WAIT', 'kwargs': {'wait': 40}},        *)
(* returns the wait time of that command (40 seconds) and the accumulated  *)
(* total grows by it.                                                      *)
(***************************************************************************)
C30_DocumentedWaitReturnsForty ==
    [][(/\ CalcStep
        /\ last'.command =
             [dict |-> [command_name |-> "WAIT",
                        kwargs |-> [wait |-> Num(40)]]])
       => /\ last'.exc = ""
          /\ last'.ret = 40
          /\ _time_length' = _time_length + 40]_vars

Count == IntOf(call.repeat[1])
RepeatedText == call.repeat # None /\ Count.exc = "" /\ Count.ret >= 1
RECURSIVE Copies(_, _)
Copies(list, n) == IF n <= 0 THEN <<>> ELSE list \o Copies(list, n - 1)
\* The sub-exposures of the expanded text, and the command that carries it
Expanded ==
    IF RepeatedText THEN Copies(call.triples, Count.ret) ELSE call.triples
ExpandedRecord == [kwargs |-> [seq |-> ListText(Expanded)]]
\* A sub-exposure with a count, a filter and an exposure in seconds or "a"
WellFormed(fields) ==
    /\ Len(fields) = 3
    /\ IntOf(fields[1]).exc = ""
    /\ fields[3] = <<"a">> \/ FloatOf(fields[3]).exc = ""
RECURSIVE SumNumbers(_)
SumNumbers(triples) ==
    IF triples = <<>> THEN 0
    ELSE (IF WellFormed(Head(triples)) THEN IntOf(Head(triples)[1]).ret
          ELSE 1)
         + SumNumbers(Tail(triples))
RECURSIVE SumTimes(_)
SumTimes(triples) ==
    IF triples = <<>> THEN 0
    ELSE (IF WellFormed(Head(triples))
          THEN IntOf(Head(triples)[1]).ret
               * (IF Head(triples)[3] = <<"a">> THEN 5
                  ELSE FloatOf(Head(triples)[3]).ret)
          ELSE 1)
         + SumTimes(Tail(triples))
\* The filters of the sub-exposures that differ from the one before
RECURSIVE Changes(_, _)
Changes(before, triples) ==
    IF triples = <<>> THEN 0
    ELSE (IF Head(triples)[2] # before THEN 1 ELSE 0)
         + Changes(Head(triples)[2], Tail(triples))
\* Every sub-exposure has a filter field, and the text is the list of them
\* or N, "x", "(", list, ")" with no x in the list
Listed ==
    /\ \A k \in 1..Len(call.triples) : Len(call.triples[k]) >= 2
    /\ \/ call.repeat = None
       \/ /\ RepeatedText
          /\ \A k \in 1..Len(call.triples) :
               \A j \in 1..Len(call.triples[k]) :
                 \A i \in 1..Len(call.triples[k][j]) :
                   call.triples[k][j][i] # "x"

(***************************************************************************)
(* C25: for every repeat count N >= 1 and every inner sequence text,       *)
(* solve_multiple_seq on the text N, "x", "(", inner, ")" returns N copies *)
(* of the inner text joined by commas ("2x(3/Red/4)" gives                 *)
(* "3/Red/4,3/Red/4"), and a text not of that form is returned unchanged;  *)
(* exposure count and exposure-time sum are computed on the expanded text. *)
(***************************************************************************)
C25_RepeatedSeqExpanded ==
    /\ Called("solve_multiple_seq")
       => /\ RepeatedText => call.out = Gives(ListText(Expanded))
          /\ ~RepeatedText => call.out = Gives(SeqText(call))
          /\ (call.triples = ExampleRepeated /\ call.repeat = Some(<<"2">>))
             => call.out = Gives(<<"3", "/", "R", "e", "d", "/", "4", ",",
                                   "3", "/", "R", "e", "d", "/", "4">>)
    /\ (Called("_exposure_number") /\ RepeatedText)
       => call.out = _exposure_number(ExpandedRecord)
    /\ (Called("_exposure_time_sum") /\ RepeatedText)
       => call.out = _exposure_time_sum(ExpandedRecord)

(***************************************************************************)
(* C26: for any seq text, _exposure_number and _exposure_time_sum never    *)
(* raise: every malformed triple (missing fields, non-numeric count or     *)
(* exposure) contributes exactly 1 to the result, and every well-formed    *)
(* triple contributes its count (respectively count times exposure         *)
(* seconds, exposure "a" meaning 5 seconds).                               *)
(***************************************************************************)
C26_ExposureSumsNeverRaise ==
    /\ Called("_exposure_number")
       => /\ call.out.exc = ""
          /\ (call.repeat = None \/ RepeatedText)
             => call.out.ret = SumNumbers(Expanded)
    /\ Called("_exposure_time_sum")
       => /\ call.out.exc = ""
          /\ (call.repeat = None \/ RepeatedText)
             => call.out.ret = SumTimes(Expanded)

(***************************************************************************)
(* C27: _filter_changes returns the number of positions in the expanded    *)
(* triple list whose filter differs from the filter before it, where the   *)
(* filter before the first triple is the record's filter_pos (the          *)
(* pre-command filter); repeated equal filters add nothing (seq            *)
(* "1/A/1,1/B/1,1/B/1,1/C/1" starting from filter A gives 2).  (The seq    *)
(* text is a list of sub-exposures that have a filter field, alone or      *)
(* repeated N times with no x in it.)                                      *)
(***************************************************************************)
C27_FilterChangesCounted ==
    (Called("_filter_changes") /\ Listed)
    => /\ call.out = Gives(Changes(call.filter_pos, Expanded))
       /\ (/\ call.triples = ExampleFilters
           /\ call.repeat = None
           /\ call.filter_pos = <<"A">>)
          => call.out.ret = 2

\* the example of the claim
C27_Witness ==
    /\ Called("_filter_changes")
    /\ call.triples = ExampleFilters
    /\ call.repeat = None
    /\ call.filter_pos = <<"A">>
    /\ call.out = Gives(2)

(***************************************************************************)
(* C28: for every telescope name and every readout-mode index,             *)
(* _rm_mode_inverse_mhz returns without raising: the reciprocal of the     *)
(* telescope's table entry when the telescope is known, the index is       *)
(* within its table and the entry is non-zero, and otherwise the           *)
(* reciprocal of the default table's entry at that index.                  *)
(***************************************************************************)
C28_InverseMhzNeverRaises ==
    Called("_rm_mode_inverse_mhz")
    => LET modes == IF call.rm_modes = None THEN _DEFAULT_RM_MODES_MHZ
                    ELSE call.rm_modes
           within == /\ Has(modes, call.telescope)
                     /\ 0 <= call.rm_mode
                     /\ call.rm_mode < Len(modes[call.telescope])
       IN  /\ call.out.exc = ""
           /\ IF within /\ modes[call.telescope][call.rm_mode + 1] # 0
              THEN call.out.ret
                   = <<1, modes[call.telescope][call.rm_mode + 1]>>
              ELSE /\ Has(modes, "default")
                   /\ call.out = Reciprocal(Item(modes["default"],
                                                 call.rm_mode))

(***************************************************************************)
(* C24: for all azimuth pairs (a, b) in degrees, _az_distance(a, b) equals *)
(* _az_distance(b, a) and lies in [0, 180]; when |a - b| exceeds 180 the   *)
(* result is 360 - |a - b| (distance(0, 90) = 90, distance(350, 10) = 20). *)
(***************************************************************************)
C24_AzDistanceSymmetricShortest ==
    Called("_az_distance")
    => /\ call.out.exc = ""
       /\ call.out.ret = _az_distance(call.end, call.start)
       /\ 0 <= call.out.ret /\ call.out.ret <= 180
       /\ Abs(call.start - call.end) > 180
          => call.out.ret = 360 - Abs(call.start - call.end)
       /\ (call.start = 0 /\ call.end = 90) => call.out.ret = 90
       /\ (call.start = 350 /\ call.end = 10) => call.out.ret = 20

\* the second example of the claim: the shorter way is through north
C24_Witness ==
    /\ Called("_az_distance")
    /\ call.start = 350
    /\ call.end = 10
    /\ call.out = Gives(20)

(***************************************************************************)
(* The locals of _find_nights_id after the first n records of data.        *)
(***************************************************************************)
RECURSIVE Locals(_, _)
Locals(data, n) ==
    IF n = 0
    THEN [random_id |-> "", line_started |-> None, full_nights_id |-> <<>>]
    ELSE FindStep(Locals(data, n - 1), data[n], n - 1)

\* A night is open before the record of index i: it has started and has
\* not been closed
Open(i) == Locals(parsed_data, i).line_started # None
OpenId(i) == Locals(parsed_data, i).random_id
\* The entry of the night that was open before the record of index i, once
\* that record is handled
ClosedAt(i) == Get(Locals(parsed_data, i + 1).full_nights_id, OpenId(i))
\* The record of index i is a start record of another random_id than the
\* open one, or an end record of the open one
StartsAnother(i) ==
    /\ Open(i)
    /\ \E r \in RandomIds \ {OpenId(i)} : IsStartOf(parsed_data[i + 1], r)
EndsOpen(i) == Open(i) /\ IsEndOf(parsed_data[i + 1], OpenId(i))

(***************************************************************************)
(* C31: in _find_nights_id, a NIGHTPLAN start record of a new random_id    *)
(* met at index i while a night is open closes the open night with         *)
(* ended = i - 1, and a NIGHTPLAN record of the open random_id carrying    *)
(* done or skipped at index j closes it with ended = j; in both cases the  *)
(* entry keeps the index where the night started and no night is open      *)
(* after the record.                                                       *)
(***************************************************************************)
C31_OpenNightClosed ==
    InPass =>
      \A i \in 0..(Len(parsed_data) - 1) :
        /\ StartsAnother(i) =>
             /\ OpenId(i) \in Keys(Locals(parsed_data, i + 1).full_nights_id)
             /\ ClosedAt(i).ended = i - 1
             /\ ClosedAt(i).started = Locals(parsed_data, i).line_started
             /\ ~Open(i + 1)
        /\ EndsOpen(i) =>
             /\ OpenId(i) \in Keys(Locals(parsed_data, i + 1).full_nights_id)
             /\ ClosedAt(i).ended = i
             /\ ClosedAt(i).started = Locals(parsed_data, i).line_started
             /\ ~Open(i + 1)

\* a log in which one night is closed by its end record and another by the
\* start record of the next
C31_Witness ==
    /\ InPass
    /\ \E i, j \in 0..(Len(parsed_data) - 1) :
         /\ StartsAnother(i) /\ ClosedAt(i).ended = i - 1
         /\ EndsOpen(j) /\ ClosedAt(j).ended = j

(***************************************************************************)
(* The kinds of parameter of a WAIT command, first the one asked for       *)
(* first; the kinds the command of the call carries; the first of them;    *)
(* and the command with that parameter alone.                              *)
(***************************************************************************)
WaitKinds == <<"sec", "ut", "sunrise", "sunset">>
Present ==
    IF Has(Command, "kwargs")
    THEN {k \in 1..Len(WaitKinds) : Has(Command["kwargs"], WaitKinds[k])}
    ELSE {}
First == WaitKinds[CHOOSE k \in Present : \A j \in Present : k <= j]
Alone ==
    [command_name |-> "WAIT",
     kwargs |-> [kind \in {First} |-> Command["kwargs"][kind]]]
\* What the call gives for the command Alone
OfAlone == calc_time(Self, [dict |-> Alone], last'.sky, last'.eph)

(***************************************************************************)
(* C32: for a WAIT command the time is taken from exactly one parameter    *)
(* kind, chosen in the priority sec, then ut, then sunrise, then sunset:   *)
(* the call ends, returns and adds to the total as it does for the command *)
(* with the parameter of the first kind present alone (sec = 30 with ut    *)
(* returns 30; sunrise with sunset and the sun 50000 seconds away returns  *)
(* 50000, which sunset alone would not).  A WAIT with none of the four, or *)
(* without kwargs, returns 0 and leaves the total unchanged.               *)
(***************************************************************************)
C32_WaitKindByPriority ==
    [][(/\ CalcStep
        /\ Named
        /\ Command["command_name"] = "WAIT")
       => IF Present = {}
          THEN /\ last'.exc = ""
               /\ last'.ret = 0
               /\ _time_length' = _time_length
          ELSE /\ last'.exc = OfAlone.exc
               /\ last'.ret = OfAlone.ret
               /\ _time_length' = OfAlone.self._time_length
               /\ (First = "sec" /\ Command["kwargs"]["sec"] = Num(30))
                  => last'.ret = 30
               /\ (First = "sunrise" /\ last'.eph = [seconds |-> 50000])
                  => last'.ret = 50000
               /\ (First = "sunset" /\ last'.eph = [seconds |-> 50000])
                  => last'.ret = 0]_vars

\* sunrise wins over sunset, after a call that returned 0
C32_Witness ==
    /\ last.op = "calc_time"
    /\ last.command = [dict |-> [command_name |-> "WAIT",
                                 kwargs |-> [sunrise |-> Num(0),
                                             sunset |-> Num(0)]]]
    /\ last.eph = [seconds |-> 50000]
    /\ last.exc = ""
    /\ last.ret = 50000
    /\ _time_length_list = <<0, 50000>>
    /\ _time_length = 50000

(***************************************************************************)
(* The parameter set stored under the name of the command, an average of   *)
(* it, and the value of the linear model of param with the distances dome  *)
(* and mount.                                                              *)
(***************************************************************************)
OwnSet == available_param[telescope][Command["command_name"]]
Stored(key) == IF Has(OwnSet, key) THEN OwnSet[key] ELSE 0
ValueWith(param, dome, mount) ==
    dome * param["coef"]["dome_distance"]
    + mount * param["coef"]["mount_distance"]
    + _exposure_time_sum(Command).ret * param["coef"]["exposure_time_sum"]
    + _filter_changes(Positioned).ret * param["coef"]["filter_changes"]
    + Times(_rm_mode_inverse_mhz(ReadoutMode._rmode, telescope,
                                 _set_rm_modes).ret,
            _exposure_number(Command).ret) * param["coef"]["rmmode_expno"]
    + _dither_on(Command) * _exposure_number(Command).ret
        * param["coef"]["dither_expno"]
    + param["intercept"]

(***************************************************************************)
(* C33: in target-position-unknown mode (tpg set) the dome_distance and    *)
(* mount_distance features of a trained command are the stored            *)
(* dome_average_dist and mount_average_dist of that command's parameter    *)
(* set (0 each when the set holds no averages), whatever target the        *)
(* command carries: the call returns the value of the linear model with    *)
(* these two distances, or 0 when that value is negative.  (The parameter  *)
(* set holds both averages or none, and each of the other features has a   *)
(* value.)                                                                 *)
(***************************************************************************)
C33_AveragesInTpgMode ==
    [][(/\ CalcStep
        /\ Named
        /\ Trained
        /\ tpg
        /\ Has(available_param[telescope], ModelName)
        /\ SixCoefficients(available_param[telescope][ModelName])
        /\ FeaturesDefined)
       => LET value == ValueWith(available_param[telescope][ModelName],
                                 Stored("dome_average_dist"),
                                 Stored("mount_average_dist"))
          IN  /\ last'.exc = ""
              /\ last'.ret = IF value >= 0 THEN value ELSE 0]_vars

\* a command with a target a quarter turn away from the dome, with the
\* averages 30 and 20 stored: 30 * 1 + 20 * 2 + 10 * 1 + 1 * 3 + 1 * 4
C33_Witness ==
    /\ last.op = "calc_time"
    /\ tpg
    /\ available_param = [dev |-> [OBJECT |-> GeometryParams]]
    /\ last.command = [dict |-> [command_name |-> "OBJECT",
                                 kwargs |-> [az |-> Num(90), alt |-> Num(0),
                                             seq |-> OneExposure]]]
    /\ last.exc = ""
    /\ last.ret = 87
    /\ _time_length_list = <<87>>
    /\ _az_dome = 0

(***************************************************************************)
(* The sub-exposures of the seq of the command, each the list of its       *)
(* fields, and the call went through to the end: it appended what it       *)
(* returned to the history list.                                           *)
(***************************************************************************)
SeqTriples ==
    LET s == Split(Command["kwargs"]["seq"], ",")
    IN  [k \in 1..Len(s) |-> Split(s[k], "/")]
Evaluated ==
    /\ last'.exc = ""
    /\ Len(_time_length_list') = Len(_time_length_list) + 1
    /\ ~Skipped

(***************************************************************************)
(* C34: after calc_time evaluates a trained command, the tracked current   *)
(* filter equals the filter of the final triple of its seq, or the         *)
(* sentinel 0 when the command has no seq; and the filter-change count of  *)
(* a trained command is counted starting from the filter tracked before    *)
(* the call: with six coefficients stored the call returns the linear      *)
(* model with that count as filter_changes, or 0 when the value is         *)
(* negative.  (Evaluated: the call is not skipped for the altitude and     *)
(* goes through to the end.  The value is that of the linear model with    *)
(* the count from the tracked filter in the place of the filter_changes    *)
(* feature.)                                                               *)
(***************************************************************************)
C34_LastFilterTracked ==
    [][(/\ CalcStep
        /\ Named
        /\ Trained
        /\ Evaluated)
       => /\ _current_filter' =
                IF HasSeq(Command) THEN SeqTriples[Len(SeqTriples)][2]
                ELSE IntZero
          /\ (/\ HasSeq(Command)
              /\ Has(available_param[telescope], ModelName)
              /\ SixCoefficients(available_param[telescope][ModelName]))
             => LET param == available_param[telescope][ModelName]
                    value == ModelValue(param)
                             + (Changes(_current_filter, SeqTriples)
                                - _filter_changes(Positioned).ret)
                               * param["coef"]["filter_changes"]
                IN  last'.ret = IF value >= 0 THEN value ELSE 0]_vars

\* V then B leaves B in place, so the next command, one exposure in V,
\* costs one change of filter: 10 * 1 + 1 * 3 + 1 * 4, after
\* 2 * 1 + 2 * 3 + 2 * 4
C34_Witness ==
    /\ last.op = "calc_time"
    /\ available_param = [dev |-> [OBJECT |-> GeometryParams]]
    /\ last.command = [dict |-> [command_name |-> "OBJECT",
                                 kwargs |-> [seq |-> OneExposure]]]
    /\ last.exc = ""
    /\ last.ret = 17
    /\ _current_filter = <<"V">>
    /\ _time_length_list = <<16, 17>>


(***************************************************************************)
(* Training: CycleTimeTrain._save_train_param_to_file writes the fitted    *)
(* parameters of a command, and CycleTimeCalc.get_last_params reads them   *)
(* back.  train.param holds the lines of <telescope>_<command>_train_param *)
(* and train.last those of the train_param_last file, per command, in one  *)
(* base folder; a file not written yet has no lines.                       *)
(***************************************************************************)
MaxRuns == 3         \* training runs that reach _save_train_param_to_file

TrainCommands == {"OBJECT", "DARK"}

\* What _train returns for six x columns (coef by column number, intercept,
\* r2), with the two averages train_data_command adds at lines 72-73
Fits ==
    {[coef |-> <<1, 2, 1, 3, 4, 5>>, intercept |-> 0, r2 |-> 1,
      dome_average_dist |-> 30, mount_average_dist |-> 20],
     [coef |-> <<0, 0, 1, 0, 0, 0>>, intercept |-> 5, r2 |-> 0,
      dome_average_dist |-> 0, mount_average_dist |-> 0],
     [coef |-> <<0, 0, 1, 0, 0, 0>>, intercept |-> -20, r2 |-> 1,
      dome_average_dist |-> 30, mount_average_dist |-> 20]}

\* str(datetime.isoformat()) of an instant
isoformat(t) == <<"iso", t>>

\* _add_to_file with mode 'w': the file is truncated before the write
_add_to_file_w(file, data) == <<data>>

\* lines 80-90: the record both files get
TrainRecord(param, stamp) ==
    [train_utc_time_stamp |-> isoformat(stamp),
     coef |-> [m \in {_X_COLUMNS[n] : n \in 1..Len(_X_COLUMNS)} |->
                  param["coef"][CHOOSE n \in 1..Len(_X_COLUMNS) : _X_COLUMNS[n] = m]],
     intercept |-> param["intercept"],
     r2 |-> param["r2"],
     dome_average_dist |-> param["dome_average_dist"],
     mount_average_dist |-> param["mount_average_dist"]]

\* A variant that appends to the last file as it does to the history
_save_train_param_appending(files, param, command, stamp) ==
    LET dat == TrainRecord(param, stamp)
    IN  [param |-> [files.param EXCEPT ![command] = _add_to_file(@, _encode_data(dat))],
         last |-> [files.last EXCEPT ![command] = _add_to_file(@, _encode_data(dat))]]

\* The two files of the folder after _save_train_param_to_file
_save_train_param_to_file(files, param, command, stamp) ==
    LET dat == TrainRecord(param, stamp)
    IN  [param |-> [files.param EXCEPT ![command] = _add_to_file(@, _encode_data(dat))],
         last |-> [files.last EXCEPT ![command] = _add_to_file_w(@, _encode_data(dat))]]

\* get_last_params: read_file gives None for a file that is not there, and
\* None has no split; the empty list of records has no last one
get_last_params(files, command) ==
    IF files.last[command] = <<>> THEN Throws("AttributeError")
    ELSE LET data == _parse_data(read_file(files.last[command]))
         IN  IF data = <<>> THEN Gives(None) ELSE Gives(data[Len(data)])

InitTrain ==
    /\ raw_data = <<>>
    /\ night_verif = <<>>
    /\ clean_data = [c \in Commands |-> <<>>]
    /\ pc = "idle"
    /\ parsed_data = <<>>
    /\ found_nights = <<>>
    /\ full_nights_id = <<>>
    /\ commands_data = <<>>
    /\ n_written = 0
    /\ fresh = FALSE
    /\ rerun = FALSE
    /\ kills = 0
    /\ __init__([dev |-> [OBJECT |-> ExampleParams]], FALSE)
    /\ call = None
    /\ pair = None
    /\ ct = None
    /\ train = [param |-> [c \in TrainCommands |-> <<>>],
                last |-> [c \in TrainCommands |-> <<>>],
                now |-> 0,
                written |-> [c \in TrainCommands |-> <<>>],
                did |-> [op |-> "init"]]

\* One training run that reaches line 74, at the next instant of the clock
SaveTrainParam ==
    /\ train.now < MaxRuns
    /\ \E command \in TrainCommands, param \in Fits :
          LET files == _save_train_param_to_file(train, param, command, train.now + 1)
          IN  train' = [param |-> files.param,
                        last |-> files.last,
                        now |-> train.now + 1,
                        written |-> [train.written EXCEPT ![command] =
                                        Append(@, TrainRecord(param, train.now + 1))],
                        did |-> [op |-> "_save_train_param_to_file",
                                 command |-> command]]
    /\ UNCHANGED <<cleanvars, calcvars, call, pair, ct>>

\* A calculator reads the last parameters of a command
GetLastParams ==
    /\ \E command \in TrainCommands :
          train' = [train EXCEPT !.did = [op |-> "get_last_params",
                                          command |-> command,
                                          out |-> get_last_params(train, command)]]
    /\ UNCHANGED <<cleanvars, calcvars, call, pair, ct>>

NextTrain == SaveTrainParam \/ GetLastParams

SpecTrain == InitTrain /\ [][NextTrain]_vars

(***************************************************************************)
(* C35: after every training run that writes parameters for a command, the *)
(* last-params file holds exactly one record, equal to the record just     *)
(* appended as the final line of the history file; the history file holds  *)
(* the records of all the runs of the command, in the order written; and   *)
(* get_last_params returns the record of the latest run.                   *)
(***************************************************************************)
C35_LastIsLatestOfHistory ==
    \A c \in TrainCommands :
        train.written[c] # <<>>
        => LET history == train.param[c]
               runs == train.written[c]
           IN  /\ Len(train.last[c]) = 1
               /\ train.last[c][1] = history[Len(history)]
               /\ _parse_data(read_file(history)) = runs
               /\ (train.did.op = "get_last_params" /\ train.did.command = c)
                  => train.did.out = Gives(runs[Len(runs)])

\* The second run for OBJECT has been made, then DARK's first, and the last
\* parameters of OBJECT are read: those of the second run
C35_Witness ==
    /\ Len(train.param["OBJECT"]) = 2
    /\ Len(train.param["DARK"]) = 1
    /\ Len(train.last["OBJECT"]) = 1
    /\ train.did.op = "get_last_params"
    /\ train.did.command = "OBJECT"
    /\ train.did.out.exc = ""
    /\ train.did.out.ret.train_utc_time_stamp = isoformat(2)
    /\ train.did.out.ret.intercept = 5
    /\ train.did.out.ret.coef = Coef(0, 0, 1, 0, 0, 0)
    /\ train.written["OBJECT"][1].intercept = 0

(***************************************************************************)
(* Logs of whole nights: a raw log made of up to MaxNights plans, each a   *)
(* NIGHTPLAN start, its executed commands and its NIGHTPLAN end, and the   *)
(* data_clean passes over it.  A plan may be run again under its           *)
(* random_id.                                                              *)
(***************************************************************************)
MaxNights == 3       \* plans in the raw log

\* The records of one plan: opened and closed at once, or with two or
\* three executed commands in between
Plans ==
    UNION {{<<NightStart(r), NightEnd(r)>>,
            <<NightStart(r), Executed("OBJECT"), Executed("OBJECT"),
              NightEnd(r)>>,
            <<NightStart(r), Executed("OBJECT"), Executed("OBJECT"),
              Executed("OBJECT"), NightEnd(r)>>} : r \in RandomIds}

\* The log the collector has written for the records given, stamped by the
\* clock as save_to_log stamps them
Logged(records) ==
    [i \in 1..Len(records) |->
       _encode_data([utc_date_stamp |-> i, utc_time_stamp |-> i]
                    @@ records[i])]

InitNights ==
    /\ \E n \in 1..MaxNights : \E plans \in [1..n -> Plans] :
          raw_data = Logged(Flatten(plans))
    /\ night_verif = <<>>
    /\ clean_data = [c \in Commands |-> <<>>]
    /\ pc = "idle"
    /\ parsed_data = <<>>
    /\ found_nights = <<>>
    /\ full_nights_id = <<>>
    /\ commands_data = <<>>
    /\ n_written = 0
    /\ fresh = FALSE
    /\ rerun = FALSE
    /\ kills = 0
    /\ __init__([dev |-> [OBJECT |-> ExampleParams]], FALSE)
    /\ call = None
    /\ pair = None
    /\ ct = None
    /\ train = None

NextNights == DataClean \/ Save \/ Kill \/ Return

SpecNights == InitNights /\ [][NextNights]_vars

(***************************************************************************)
(* C36: within the clean-data file of each command a plan executes, the    *)
(* feature records a data_clean pass has appended are in the order of the  *)
(* raw log: each was built from a start record further down the log than   *)
(* the one before it.  (The file of NIGHTPLAN itself is left aside: the    *)
(* records it gets are those of C10.)                                      *)
(***************************************************************************)
\* The lines the pass in progress has appended to the file of a command
AppendedTo(c) ==
    LET mine == SelectSeq(Done, LAMBDA a : a.file = "clean_data" /\ a.command = c)
        file == clean_data[c]
    IN  SubSeq(file, Len(file) - Len(mine) + 1, Len(file))

C36_AppendedInLogOrder ==
    pc \in {"saving", "done", "killed"}
    => \A c \in Commands \ {"NIGHTPLAN"} :
          \A i, j \in 1..Len(AppendedTo(c)) :
              i < j => StartIndex(_decode_data(AppendedTo(c)[i]))
                       < StartIndex(_decode_data(AppendedTo(c)[j]))

(***************************************************************************)
(* C37: a calc_time call that returns gives a value of at least 0, and     *)
(* the accumulated total after the call is not less than before it.        *)
(***************************************************************************)
C37_TotalNeverDecreases ==
    [][(CalcStep /\ last'.exc = "")
       => /\ last'.ret >= 0
          /\ _time_length' >= _time_length]_vars

(***************************************************************************)
(* C38: a calc_time call that ends through the caught KeyError (it returns *)
(* and has appended nothing to the history list) leaves the simulated      *)
(* mount altitude and azimuth, the dome azimuth, the tracked filter, the   *)
(* readout-mode index and the accumulated total as they were.              *)
(***************************************************************************)
C38_KeyErrorPathChangesNothing ==
    [][(CalcStep /\ last'.exc = "" /\ _time_length_list' = _time_length_list)
       => UNCHANGED <<_alt_mount, _az_mount, _az_dome, _current_filter,
                      _rmode, _time_length>>]_vars

Moves == Named /\ Trained /\ Target # None /\ ~tpg /\ ~Skipped

C40_PositionIsTargetOrUnchanged ==
    [][CalcStep
       => IF Moves
          THEN /\ _az_dome' = Target[1].az
               /\ _az_mount' = Target[1].az
               /\ _alt_mount' = Target[1].alt
          ELSE UNCHANGED <<_alt_mount, _az_mount, _az_dome>>]_vars

\* The second call of a session sends the telescope to the horizon at
\* azimuth 90, with skipping off
C40_Witness ==
    /\ last.op = "calc_time"
    /\ available_param = [dev |-> [OBJECT |-> GeometryParams]]
    /\ ~tpg
    /\ ~_skipping
    /\ last.command = [dict |-> [command_name |-> "OBJECT",
                                 kwargs |-> [az |-> Num(90), alt |-> Num(0),
                                             seq |-> OneExposure]]]
    /\ last.exc = ""
    /\ Len(_time_length_list) = 2
    /\ _alt_mount = 0
    /\ _az_mount = 90
    /\ _az_dome = 90
====
